---- MODULE Spec2Model ----
(***************************************************************************)
(* A model of the `frozen` package: the execution tracer and the           *)
(* capability resolver (core.py), the class-wrapper constructor protocol   *)
(* and argument tailoring (core.py), the lock, freeze and view aspects     *)
(* (lockable.py, freezable.py, core.View).                                 *)
(*                                                                         *)
(* Python values are modelled as follows.  A class is a string (its        *)
(* name); the class that a decorator returns is named after the wrapper    *)
(* it is, e.g. "LockableWrapper(Account)".  Python's None is the string    *)
(* "None".  A function object is a record with its identity (fid), its     *)
(* __name__, the identity of its code object and its closure.  A frame of  *)
(* the call stack is a record with the identity and name of its code, the  *)
(* number of positional parameters of the code and the class of the value  *)
(* bound to the first one.  A call stack is a sequence of frames, the      *)
(* innermost frame first.                                                  *)
(***************************************************************************)
EXTENDS Integers, Sequences, FiniteSets, TLC

VARIABLES
    objs,     \* the instances: id -> [cls, has, frozen, locks, a, kids]
    clsattr,  \* class attributes that hold instances: class -> set of ids
    cache,    \* ExecutionTracer.code_method_cache / code_location_cache
    views,    \* the view objects, a sequence of [obj, over, mixins, has, frozen, view_locks]
    decor,    \* the decorators: current_decorator_specs, the last MethodSpec, __decorator__
    last      \* what the last operation did and returned

\* Let(v, F) is F(v): the value v is computed once and named by F's parameter
Let(v, F(_)) == F(v)

vars == <<objs, clsattr, cache, views, decor, last>>

None == "None"

(***************************************************************************)
(* Bounds of the model.                                                    *)
(***************************************************************************)
MaxObjs == 5      \* instances that can exist at once (ids 1..MaxObjs)
MaxViews == 1     \* views that are made
MaxVal == 1       \* the values given to the user attribute `a` are 0..MaxVal
MaxNested == 1    \* views of views that are made
MaxSpecs == 2     \* methods that are decorated

(***************************************************************************)
(* Small helpers.                                                          *)
(***************************************************************************)
Min(S) == CHOOSE x \in S : \A y \in S : x <= y

Range(s) == {s[i] : i \in 1..Len(s)}

RECURSIVE SetToSeq(_)
SetToSeq(S) == IF S = {} THEN <<>>
               ELSE LET x == CHOOSE y \in S : TRUE IN <<x>> \o SetToSeq(S \ {x})

RECURSIVE Concat(_)
Concat(ss) == IF ss = <<>> THEN <<>> ELSE Head(ss) \o Concat(Tail(ss))

\* a sequence without its duplicates, the last occurrence of each element kept
RECURSIVE KeepLast(_)
KeepLast(s) == IF s = <<>> THEN <<>>
               ELSE IF Head(s) \in Range(Tail(s)) THEN KeepLast(Tail(s))
               ELSE <<Head(s)>> \o KeepLast(Tail(s))

(***************************************************************************)
(* The classes of the modelled program.                                    *)
(*                                                                         *)
(*   class Admin / class SubAdmin(Admin) / class Guest    (callers)        *)
(*   class Auditor(Admin), which overrides act and calls Admin.act(self)   *)
(*   @lockable(lock_permissions={"admin": {Admin}, "open": None})          *)
(*   class Account                                                         *)
(*   @lockable(lock_permissions={"admin": {Admin}})                        *)
(*   class Other                                                           *)
(*   @freezable() @lockable(lock_permissions={"admin": {Admin},            *)
(*                                            "open": None}) class Doc     *)
(*   @lockable(lock_permissions={"admin": {Admin}, "open": None})          *)
(*   @freezable() class Memo                                               *)
(*   @freezable() class Node / @freezable(let_melt=True) class Leaf        *)
(*   @freezable(let_freeze=False) class Stone                              *)
(*   @alienatable.cls(friends={None: {Admin}, "g": {Guest}}) class Vault   *)
(*   class Plain                                  (not decorated)          *)
(***************************************************************************)
AspectClasses == {"Lockable", "Freezable", "Alienatable"}

PlainClasses == {"Admin", "SubAdmin", "Auditor", "Guest", "Account", "Other", "Doc",
                 "Memo", "Node", "Leaf", "Stone", "Vault", "Plain", "ExecutionTracer", "set"}

LAccount == "LockableWrapper(Account)"
LOther == "LockableWrapper(Other)"
LDoc == "LockableWrapper(Doc)"
FLDoc == "FreezableWrapper(LockableWrapper(Doc))"
FMemo == "FreezableWrapper(Memo)"
LFMemo == "LockableWrapper(FreezableWrapper(Memo))"
FNode == "FreezableWrapper(Node)"
FLeaf == "FreezableWrapper(Leaf)"
FStone == "FreezableWrapper(Stone)"
AVault == "AlienatableWrapper(Vault)"

WrapperClasses == {LAccount, LOther, LDoc, FLDoc, FMemo, LFMemo, FNode, FLeaf, FStone,
                   AVault}

Classes == PlainClasses \cup AspectClasses \cup WrapperClasses
               \cup {"ClassWrapperBase", "object"}

\* cls.__bases__; a wrapper is `class XWrapper(cls, X)`
Bases(c) ==
    CASE c = "object" -> <<>>
      [] c \in {"SubAdmin", "Auditor"} -> <<"Admin">>
      [] c \in AspectClasses -> <<"ClassWrapperBase">>
      [] c = LAccount -> <<"Account", "Lockable">>
      [] c = LOther -> <<"Other", "Lockable">>
      [] c = LDoc -> <<"Doc", "Lockable">>
      [] c = FLDoc -> <<LDoc, "Freezable">>
      [] c = FMemo -> <<"Memo", "Freezable">>
      [] c = LFMemo -> <<FMemo, "Lockable">>
      [] c = FNode -> <<"Node", "Freezable">>
      [] c = FLeaf -> <<"Leaf", "Freezable">>
      [] c = FStone -> <<"Stone", "Freezable">>
      [] c = AVault -> <<"Vault", "Alienatable">>
      [] OTHER -> <<"object">>

\* cls.__mro__ (for these hierarchies: depth first, left to right, the last
\* occurrence of a class kept)
RECURSIVE Linear(_)
Linear(c) == <<c>> \o Concat([i \in 1..Len(Bases(c)) |-> Linear(Bases(c)[i])])

MroTable == [c \in Classes |-> KeepLast(Linear(c))]

Mro(c) == MroTable[c]

\* issubclass(c, d)
IsSubclass(c, d) == d \in Range(Mro(c))

\* cls.__subclasses__()
SubclassesTable == [c \in Classes |-> SetToSeq({d \in Classes : c \in Range(Bases(d))})]

Subclasses(c) == SubclassesTable[c]

\* ClassWrapperBase.__is_wrapper
IsWrapper(c) ==
    /\ Len(Bases(c)) = 2
    /\ Len(Bases(Bases(c)[2])) > 0
    /\ Bases(Bases(c)[2])[1] = "ClassWrapperBase"

\* wrapper.__cls__, set by ClassWrapperBase.__init_subclass__
RECURSIVE DecoratedCls(_)
DecoratedCls(c) == IF IsWrapper(Bases(c)[1]) THEN DecoratedCls(Bases(c)[1])
                   ELSE Bases(c)[1]

\* ClassDecorator.get_wrapper_class for the aspect `aspect`
GetWrapperClass(aspect, target) ==
    LET m == Mro(target)
        hit == {i \in 1..Len(m) : Len(Bases(m[i])) = 2 /\ Bases(m[i])[2] = aspect}
    IN  IF hit = {} THEN None ELSE m[Min(hit)]

(***************************************************************************)
(* Function objects and the members of the classes.                        *)
(***************************************************************************)
NoClosure == [none |-> TRUE, cells |-> <<>>]          \* f.__closure__ is None
Closure(cells) == [none |-> FALSE, cells |-> cells]
OtherCell == [isfunc |-> FALSE]                       \* a cell that holds no function
Fn(fid, name, code, closure) ==
    [isfunc |-> TRUE, fid |-> fid, name |-> name, code |-> code, closure |-> closure]

\* locked_in_view(method): method_wrapper, renamed by wraps(), `method` in its closure
LockedInView(method) ==
    Fn(method.fid \o "[method_wrapper]", method.name, "method_wrapper",
       Closure(<<method>>))

\* a method of a user class, not decorated
PlainMethod(c, name) == Fn(c \o "." \o name, name, c \o "." \o name, NoClosure)

\* X.method()(m): the wrapper function, renamed by wraps(); `method` and `self`
\* (the decorator) are in its closure
Guarded(wrapper_code, method) ==
    Fn(method.fid \o "[" \o wrapper_code \o "]", method.name, wrapper_code,
       Closure(<<method, OtherCell>>))

\* the functions in cls.__dict__
ClassDict(c) ==
    IF c \in WrapperClasses /\ Bases(c)[2] = "Lockable" THEN
        { Fn(c \o ".__init__", "__init__", "LockableWrapper.__init__", Closure(<<OtherCell>>)),
          LockedInView(Fn(c \o ".lock", "lock", "lock", Closure(<<OtherCell>>))),
          LockedInView(Fn(c \o ".unlock", "unlock", "unlock", Closure(<<OtherCell>>))),
          Fn(c \o ".locked", "locked", "locked", Closure(<<OtherCell>>)) }
    ELSE IF c \in WrapperClasses /\ Bases(c)[2] = "Freezable" THEN
        { Fn(c \o ".__init__", "__init__", "FreezableWrapper.__init__", Closure(<<OtherCell>>)),
          LockedInView(Fn(c \o ".freeze", "freeze", "freeze", Closure(<<OtherCell>>))),
          LockedInView(Fn(c \o ".melt", "melt", "melt", Closure(<<OtherCell>>))) }
    ELSE IF c = AVault THEN
        { Fn(c \o ".__init__", "__init__", "AlienatableWrapper.__init__", Closure(<<OtherCell>>)) }
    ELSE IF c = "Alienatable" THEN
        { PlainMethod(c, n) : n \in {"__load__", "__alien_error__"} }
    ELSE IF c = "Vault" THEN
        { PlainMethod(c, "put"),
          Guarded("alienatable_wrapper", PlainMethod(c, "secret")),
          Guarded("alienatable_wrapper", PlainMethod(c, "shared")) }
    ELSE IF c = "Lockable" THEN
        { PlainMethod(c, n) : n \in {"__load__", "lock", "unlock", "locked",
                                     "__locked_error__", "__lock_error__",
                                     "__unlock_error__", "__lock_key_error__"} }
    ELSE IF c = "Freezable" THEN
        { PlainMethod(c, n) : n \in {"__load__", "__frozen_error__", "_set_frozen_state",
                                     "freeze", "melt", "copy"} }
    ELSE IF c = "ClassWrapperBase" THEN
        { PlainMethod(c, n) : n \in {"__init__", "__load__", "view"} }
    ELSE IF c \in {"Admin", "Guest", "Auditor"} THEN
        { PlainMethod(c, "act") }
    ELSE IF c = "Account" THEN
        { PlainMethod(c, "__init__"),
          Guarded("lockable_wrapper", PlainMethod(c, "setv")) }
    ELSE IF c = "Memo" THEN
        { PlainMethod(c, "__init__"),
          Guarded("lockable_wrapper", Guarded("freezable_wrapper", PlainMethod(c, "setv"))) }
    ELSE IF c = "Doc" THEN
        { PlainMethod(c, "__init__"),
          Guarded("freezable_wrapper", Guarded("lockable_wrapper", PlainMethod(c, "setv"))) }
    ELSE IF c \in {"Node", "Leaf", "Stone"} THEN
        { PlainMethod(c, "__init__"), Guarded("freezable_wrapper", PlainMethod(c, "setv")) }
    ELSE {}

OwnDictTable == [c \in Classes |-> ClassDict(c)]

OwnDict(c) == OwnDictTable[c]

\* get_members(loc, superficial), restricted to the functions called `name`:
\* cls.__dict__ when superficial, else dir(cls) with getattr (the first class of
\* the MRO that defines the name)
Member(loc, name, superficial) ==
    LET own(c) == {f \in OwnDict(c) : f.name = name}
        m == Mro(loc)
        hit == {i \in 1..Len(m) : own(m[i]) # {}}
    IN  IF superficial THEN own(loc)
        ELSE IF hit = {} THEN {} ELSE own(m[Min(hit)])

(***************************************************************************)
(* Frames.                                                                 *)
(***************************************************************************)
Frame(code, name, argcount, argcls) ==
    [code |-> code, name |-> name, argcount |-> argcount, argcls |-> argcls]

TracerFrame == Frame("ExecutionTracer.__call__", "__call__", 3, "ExecutionTracer")
ResolverFrame == Frame("is_calling_class_valid", "is_calling_class_valid", 2, "set")
ModuleFrame == Frame("<module>", "<module>", 0, None)
FreeFrame == Frame("free", "free", 0, None)            \* a module-level function
\* the frame of method `name`, declared by class c, running on an instance of cls
MethodFrame(c, name, cls) == Frame(c \o "." \o name, name, 2, cls)
\* the frame of the lock / unlock method of a LockableWrapper running on `cls`
GuardFrame(op, cls) == Frame(op, op, 2, cls)
\* the frame of alienatable_wrapper(*args, **kwargs): no positional parameter
AlienFrame == Frame("alienatable_wrapper", "alienatable_wrapper", 0, None)
\* the frame of locked_in_view's method_wrapper
MethodWrapperFrame(cls) == Frame("method_wrapper", "method_wrapper", 1, cls)

(***************************************************************************)
(* ExecutionTracer._get_code_info                                          *)
(***************************************************************************)
NotFound(visited) == [mtd |-> None, loc |-> None, err |-> FALSE, visited |-> visited]

RECURSIVE search_closure(_, _, _, _)
search_closure(closure, mtd_name, code, loc) ==
    IF closure.none
    THEN [mtd |-> None, loc |-> None, err |-> TRUE]     \* `for cell in None`: TypeError
    ELSE LET cells == closure.cells
             hit == {i \in 1..Len(cells) : cells[i].isfunc /\ cells[i].name = mtd_name}
         IN  IF hit = {} THEN [mtd |-> None, loc |-> None, err |-> FALSE]
             ELSE LET cell == cells[Min(hit)]
                  IN  IF cell.code = code
                      THEN [mtd |-> cell.fid, loc |-> loc, err |-> FALSE]
                      ELSE search_closure(cell.closure, mtd_name, code, loc)

RECURSIVE search_locations(_, _, _, _)
search_locations(frame, search_in, superficial, visited) ==
    IF search_in = <<>> THEN NotFound(visited)
    ELSE IF Head(search_in) \in visited
    THEN search_locations(frame, Tail(search_in), superficial, visited)
    ELSE
    Let(Member(Head(search_in), frame.name, superficial), LAMBDA ms :
    LET loc == Head(search_in)
        rest == Tail(search_in)
        seen == visited \cup {loc}
    IN  IF ms = {} THEN search_locations(frame, rest, superficial, seen)
        ELSE
        Let(CHOOSE m \in ms : TRUE, LAMBDA mtd :
        IF mtd.code = frame.code
        THEN [mtd |-> mtd.fid, loc |-> loc, err |-> FALSE, visited |-> seen]
        ELSE
        Let(search_closure(mtd.closure, frame.name, frame.code, loc), LAMBDA cell :
        IF cell.err
        THEN [mtd |-> None, loc |-> None, err |-> TRUE, visited |-> seen]
        ELSE IF cell.mtd # None \/ cell.loc # None
        THEN [mtd |-> cell.mtd, loc |-> cell.loc, err |-> FALSE, visited |-> seen]
        ELSE
        Let(search_locations(frame, Subclasses(loc), TRUE, seen), LAMBDA sub :
        IF sub.err \/ sub.mtd # None \/ sub.loc # None THEN sub
        ELSE search_locations(frame, rest, superficial, sub.visited)))))

\* the class that the first positional parameter of the frame's code gives
FirstArgClass(frame) == IF frame.argcount > 0 THEN frame.argcls ELSE None

\* location_hint is a set of classes here (every caller passes one); the order
\* in which Python iterates it is not fixed, SetToSeq picks one
_get_code_info(frame, location_hint) ==
    LET cls == FirstArgClass(frame)
    IN  search_locations(frame,
            (IF cls = None THEN <<>> ELSE <<cls>>) \o SetToSeq(location_hint),
            FALSE, {})

(***************************************************************************)
(* The classification cache, keyed by id(code).                            *)
(***************************************************************************)
Codes == {"lock", "unlock", "alienatable_wrapper"}

Missing == [state |-> "missing", mtd |-> None, loc |-> None]
Cached(mtd, loc) == [state |-> "cached", mtd |-> mtd, loc |-> loc]

\* _get_code_info_from_cache without the tests of method_ref() and location_ref()
_get_code_info_from_cache_Stale(c, code) ==
    IF code \in DOMAIN c /\ c[code].state \in {"cached", "dead"}
    THEN [hit |-> TRUE, mtd |-> c[code].mtd, loc |-> c[code].loc]
    ELSE [hit |-> FALSE, mtd |-> None, loc |-> None]

\* _get_code_info_from_cache: hit is FALSE where the code raises KeyError (no
\* entry for id(code), or a weak reference of the entry is dead)
_get_code_info_from_cache(c, code) ==
    IF code \in DOMAIN c /\ c[code].state = "cached"
    THEN [hit |-> TRUE, mtd |-> c[code].mtd, loc |-> c[code].loc]
    ELSE [hit |-> FALSE, mtd |-> None, loc |-> None]

\* _update_code_info_cache: both entries are None when the method is None
_update_code_info_cache(c, code, method, location) ==
    IF code \notin DOMAIN c THEN c
    ELSE [c EXCEPT ![code] = IF method = None THEN Cached(None, None)
                             ELSE Cached(method, location)]

(***************************************************************************)
(* ExecutionTracer.__call__ and is_calling_class_valid                     *)
(***************************************************************************)
\* The first pair that the generator trace_execution(location_hint, skip_frames)
\* yields.  `stack` is the call stack at the call of next(): the generator's own
\* frame, which inspect.currentframe() returns, lies on top of it.  idx is the
\* position in `stack` of the frame that is classified (0: no frame is left).
ExecutionTracer_call(location_hint, skip_frames, stack, c) ==
    LET full == <<TracerFrame>> \o stack
        at == 1 + skip_frames
    IN  IF at > Len(full)
        THEN [stop |-> TRUE, mtd |-> None, loc |-> None, err |-> FALSE,
              idx |-> 0, cache |-> c]
        ELSE
        Let(_get_code_info_from_cache(c, full[at].code), LAMBDA hit :
        IF hit.hit
        THEN [stop |-> FALSE, mtd |-> hit.mtd, loc |-> hit.loc, err |-> FALSE,
              idx |-> at - 1, cache |-> c]
        ELSE
        Let(_get_code_info(full[at], location_hint), LAMBDA info :
        IF info.err
        THEN [stop |-> FALSE, mtd |-> None, loc |-> None, err |-> TRUE,
              idx |-> at - 1, cache |-> c]
        ELSE [stop |-> FALSE, mtd |-> info.mtd, loc |-> info.loc, err |-> FALSE,
              idx |-> at - 1,
              cache |-> _update_code_info_cache(c, full[at].code, info.mtd, info.loc)]))

\* skip_frames=from_frame + 2
SkipFrames(from_frame) == from_frame + 2

\* is_calling_class_valid(allowed_classes, from_frame), called with `stack` as
\* the call stack (its own frame first).  exc is "TypeError" when the
\* classification raises, "StopIteration" when no frame is left.
is_calling_class_valid(allowed_classes, from_frame, stack, c) ==
    Let(ExecutionTracer_call(allowed_classes, SkipFrames(from_frame), stack, c), LAMBDA t :
    [exc |-> IF t.stop THEN "StopIteration" ELSE IF t.err THEN "TypeError" ELSE "ok",
     found |-> t.loc # None /\ \E a \in allowed_classes : IsSubclass(t.loc, a),
     calling_class |-> t.loc,
     tested |-> t.idx,
     cache |-> t.cache])

\* calling_classes[0]: the resolver returns one class, not a list; subscripting
\* works on the classes that derive from Generic (ClassWrapperBase) and raises
\* TypeError on the others and on None
Subscriptable(cls) == cls # None /\ IsSubclass(cls, "ClassWrapperBase")

(***************************************************************************)
(* lockable.py: the decorator and its data.                                *)
(* A permissions argument is [given, keys, sets]: whether it was passed,   *)
(* the keys of the dict and the class set of each key whose value is not   *)
(* None.                                                                   *)
(***************************************************************************)
Keys == {"admin", "open"}
UndeclaredKey == "nokey"

NotGiven == [given |-> FALSE, keys |-> {}, sets |-> <<>>]
Permissions(keys, sets) == [given |-> TRUE, keys |-> keys, sets |-> sets]

\* LockableClassDecorator.__init__ (lock_permissions is given)
LockableClassDecorator_init(lock_permissions, unlock_permissions) ==
    [locks |-> lock_permissions.keys \cup unlock_permissions.keys,
     lock_permissions |-> lock_permissions.sets,
     unlock_permissions |-> IF unlock_permissions.given THEN unlock_permissions.sets
                            ELSE lock_permissions.sets]

\* LockableClassDecoratorData.__init__ for a class that is not Lockable yet:
\* the keys of the decorated methods are declared, and the decorated class is
\* added to every permission set
LockableClassDecoratorData_init(decorator, cls, method_keys) ==
    [locks |-> decorator.locks \cup method_keys,
     lock_permissions |->
        [k \in DOMAIN decorator.lock_permissions |->
            decorator.lock_permissions[k] \cup {cls}],
     unlock_permissions |->
        [k \in DOMAIN decorator.unlock_permissions |->
            decorator.unlock_permissions[k] \cup {cls}]]

AdminOnly == [k \in {"admin"} |-> {"Admin"}]

\* the keys of lockable.method(keys=...) on the methods of the class
SetvKeys == {"admin", "open"}
MethodKeys(cls) == IF cls \in {"Account", "Doc", FMemo} THEN SetvKeys ELSE {}

\* LockableWrapper.__decorator__ of the wrapper classes of the program
LockableWrapper_decorator(w) ==
    IF w = LOther
    THEN LockableClassDecoratorData_init(
             LockableClassDecorator_init(Permissions({"admin"}, AdminOnly), NotGiven),
             Bases(w)[1], MethodKeys(Bases(w)[1]))
    ELSE LockableClassDecoratorData_init(
             LockableClassDecorator_init(Permissions({"admin", "open"}, AdminOnly), NotGiven),
             Bases(w)[1], MethodKeys(Bases(w)[1]))

LockableWrappers == {w \in WrapperClasses : Bases(w)[2] = "Lockable"}

LockDecoratorTable == [w \in LockableWrappers |-> LockableWrapper_decorator(w)]

LockDecoratorData(w) == LockDecoratorTable[w]

(***************************************************************************)
(* LockableWrapper.lock / unlock / locked on an instance (not a view).     *)
(* os: the instances, c: the cache, callers: the frames above the call.    *)
(* The result gives the exception ("ok": none), the lock set of the        *)
(* instance and the cache afterwards, and what the resolver did.           *)
(***************************************************************************)
NoResolver == [called |-> FALSE, found |-> FALSE, calling_class |-> None, tested |-> 0,
               allowed |-> {}]

Resolved(r, allowed) ==
    [called |-> TRUE, found |-> r.found, calling_class |-> r.calling_class,
     tested |-> r.tested, allowed |-> allowed]

\* the call stack inside a guard `op` of an instance of cls, reached through
\* locked_in_view's method_wrapper from `callers`
GuardStack(op, cls, callers) ==
    <<ResolverFrame, GuardFrame(op, cls), MethodWrapperFrame(cls)>> \o callers

\* what a guard that asked the resolver r about `allowed` returns or raises:
\* it goes on (exc "ok", the lock set `locks`) when the resolver found the
\* caller among `allowed`, else raises `error`, by way of calling_classes[0]
AfterResolver(r, allowed, error, locks, held) ==
    [exc |-> IF r.exc # "ok" THEN r.exc
             ELSE IF r.found THEN "ok"
             ELSE IF Subscriptable(r.calling_class) THEN error ELSE "TypeError",
     locks |-> IF r.exc = "ok" /\ r.found THEN locks ELSE held,
     cache |-> r.cache,
     resolver |-> Resolved(r, allowed)]

\* LockableWrapper.lock without `if key in LockableWrapper.__decorator__.locks`
LockableWrapper_lock_AnyKey(o, key, callers, os, c) ==
    Let(LockDecoratorData(GetWrapperClass("Lockable", os[o].cls)), LAMBDA dec :
    IF key \notin DOMAIN dec.lock_permissions
    THEN [exc |-> "ok", locks |-> os[o].locks \cup {key}, cache |-> c,
          resolver |-> NoResolver]
    ELSE AfterResolver(
             is_calling_class_valid(dec.lock_permissions[key], 0,
                                    GuardStack("lock", os[o].cls, callers), c),
             dec.lock_permissions[key], "LockError",
             os[o].locks \cup {key}, os[o].locks))

LockableWrapper_lock(o, key, callers, os, c) ==
    Let(LockDecoratorData(GetWrapperClass("Lockable", os[o].cls)), LAMBDA dec :
    LET done == [exc |-> "ok", locks |-> os[o].locks \cup {key}, cache |-> c,
                 resolver |-> NoResolver]
    IN  IF key \notin dec.locks
        THEN [done EXCEPT !.exc = "KeyError", !.locks = os[o].locks]
        ELSE IF key \notin DOMAIN dec.lock_permissions THEN done
        ELSE AfterResolver(
                 is_calling_class_valid(dec.lock_permissions[key], 0,
                                        GuardStack("lock", os[o].cls, callers), c),
                 dec.lock_permissions[key], "LockError",
                 os[o].locks \cup {key}, os[o].locks))

LockableWrapper_unlock(o, key, callers, os, c) ==
    Let(LockDecoratorData(GetWrapperClass("Lockable", os[o].cls)), LAMBDA dec :
    LET done == [exc |-> "ok", locks |-> os[o].locks \ {key}, cache |-> c,
                 resolver |-> NoResolver]
    IN  IF key \notin dec.locks
        THEN [done EXCEPT !.exc = "KeyError", !.locks = os[o].locks]
        ELSE IF key \notin DOMAIN dec.unlock_permissions
        THEN \* set.remove raises KeyError when the key is not held
             IF key \in os[o].locks THEN done
             ELSE [done EXCEPT !.exc = "KeyError"]
        ELSE AfterResolver(
                 is_calling_class_valid(dec.unlock_permissions[key], 0,
                                        GuardStack("unlock", os[o].cls, callers), c),
                 dec.unlock_permissions[key], "UnlockError",
                 os[o].locks \ {key}, os[o].locks))

\* the value that locked(key) returns, or the exception it raises
LockableWrapper_locked(o, key, os) ==
    LET dec == LockDecoratorData(GetWrapperClass("Lockable", os[o].cls))
    IN  IF key \in dec.locks
        THEN [exc |-> "ok", value |-> key \in os[o].locks]
        ELSE [exc |-> "KeyError", value |-> FALSE]

(***************************************************************************)
(* tailor_arguments.  A dict is a function from its keys to its values; a  *)
(* FullArgSpec is [args, kwonlyargs, varkw, required]: the names of the    *)
(* positional parameters (self first), of the keyword-only ones, whether   *)
(* there is a **kwargs parameter, and the parameters without a default.    *)
(***************************************************************************)
EmptyDict == <<>>

Restrict(d, names) == [k \in names \cap DOMAIN d |-> d[k]]

\* d.update(e)
Update(d, e) == [k \in DOMAIN d \cup DOMAIN e |-> IF k \in DOMAIN e THEN e[k] ELSE d[k]]

\* dict(zip(names, values))
ZipDict(names, values) ==
    LET n == IF Len(names) < Len(values) THEN Len(names) ELSE Len(values)
    IN  [k \in {names[i] : i \in 1..n} |->
            values[CHOOSE i \in 1..n : names[i] = k /\ \A j \in (i+1)..n : names[j] # k]]

\* s[n:]
From(s, n) == SubSeq(s, n + 1, Len(s))

ArgSpec(args, kwonlyargs, varkw, required) ==
    [args |-> args, kwonlyargs |-> kwonlyargs, varkw |-> varkw, required |-> required]

\* the keyword arguments that a method with `spec` is given out of kwargs
TailoredKwargs(spec, first, kwargs) ==
    IF spec.varkw THEN kwargs
    ELSE Restrict(kwargs, Range(From(spec.args, first)) \cup Range(spec.kwonlyargs))

\* tailor_arguments with an augmented method: the kwargs of the intended
\* method, those of the augmented method, and the caller's kwargs dict, which
\* kwargs.update() changes in place
tailor_arguments(intended_spec, augmented_spec, args, kwargs, ignore_intended_params, ignore_augmented_params) ==
    LET updated == Update(kwargs, ZipDict(From(intended_spec.args, ignore_intended_params), args))
    IN  [intended_kwargs |-> TailoredKwargs(intended_spec, Len(args), kwargs),
         augmented_kwargs |-> TailoredKwargs(augmented_spec, ignore_augmented_params, updated),
         kwargs |-> updated]

\* a Python call f(self, *args, **kwargs) of a function with `spec`: "ok" when
\* the arguments bind to the parameters, else "TypeError"
Bind(spec, args, kwargs) ==
    LET positional == From(spec.args, 1)
        n == IF Len(args) < Len(positional) THEN Len(args) ELSE Len(positional)
        bound == {positional[i] : i \in 1..n}
        declared == Range(positional) \cup Range(spec.kwonlyargs)
    IN  IF Len(args) > Len(positional) THEN "TypeError"              \* too many positional
        ELSE IF bound \cap DOMAIN kwargs # {} THEN "TypeError"       \* multiple values
        ELSE IF ~spec.varkw /\ ~(DOMAIN kwargs \subseteq declared) THEN "TypeError"
        ELSE IF ~(spec.required \subseteq bound \cup DOMAIN kwargs) THEN "TypeError"
        ELSE "ok"

(***************************************************************************)
(* Instances.                                                              *)
(***************************************************************************)
ObjIds == 1..MaxObjs

NoObj == [cls |-> None, has |-> {}, frozen |-> FALSE, locks |-> {}, a |-> 0, kids |-> {}]

\* the callers of an operation: the frames above the call, innermost first
CallerStacks ==
    { <<MethodFrame("Admin", "act", "Admin"), ModuleFrame>>,
      <<MethodFrame("Admin", "act", "SubAdmin"), ModuleFrame>>,
      <<MethodFrame("Guest", "act", "Guest"), ModuleFrame>>,
      <<FreeFrame, ModuleFrame>>,
      <<FreeFrame, MethodFrame("Admin", "act", "Admin"), ModuleFrame>>,
      <<FreeFrame, MethodFrame("Guest", "act", "Guest"), ModuleFrame>> }

InitCache == [code \in Codes |-> Missing]

\* a MethodSpec: the class of the decorated method (the qualname of the method
\* without its last part), the aspect of the method decorator, the keys of a
\* lockable.method, and the identity n of the object
MethodSpec(cls, aspect, keys, n) ==
    [none |-> FALSE, cls |-> cls, aspect |-> aspect, keys |-> keys, n |-> n]

NoSpec == [none |-> TRUE, cls |-> "", aspect |-> "", keys |-> {}, n |-> 0]

\* the state of the decorators when nothing has been decorated:
\* current_decorator_specs (a defaultdict from the class decorator type to a set
\* of MethodSpec) is empty, MethodDecorator.__last_decorator_spec is None;
\* made counts the MethodSpec objects; lock and alien hold the __decorator__
\* of the wrappers of the decorated classes; gone holds the wrapper classes
\* that have been destroyed
NoDecoration ==
    [specs |-> <<>>, last_spec |-> NoSpec, made |-> 0, lock |-> <<>>, alien |-> <<>>,
     gone |-> {}]

(***************************************************************************)
(* freezable.py on the instances.  The attributes of an instance that hold *)
(* objects are os[x].kids; ca[c] are the objects that class c holds as     *)
(* class attributes.                                                       *)
(***************************************************************************)
IsFreezable(x, os) == IsSubclass(os[x].cls, "Freezable")

\* the objects among get_members(x): dir(x) gives the attributes of the
\* instance and those of the classes of its MRO
get_members(x, os, ca) ==
    os[x].kids \cup UNION {ca[c] : c \in Range(Mro(os[x].cls)) \cap DOMAIN ca}

\* get_descendents(obj, visit_children=lambda: is_freezable), from the objects
\* D already visited: the members of the Freezable objects are visited
RECURSIVE get_descendents(_, _, _)
get_descendents(D, os, ca) ==
    Let(D \cup UNION {get_members(x, os, ca) : x \in {y \in D : IsFreezable(y, os)}},
        LAMBDA next :
    IF next = D THEN D ELSE get_descendents(next, os, ca))

\* Freezable._set_frozen_state(frozen, deep)
_set_frozen_state(o, frozen, deep, os, ca) ==
    Let(IF deep THEN {x \in get_descendents({o}, os, ca) : IsFreezable(x, os)} ELSE {},
        LAMBDA marked :
    [x \in DOMAIN os |->
        IF x = o \/ x \in marked
        THEN [os[x] EXCEPT !.has = @ \cup {"__frozen__"}, !.frozen = frozen]
        ELSE os[x]])

\* FreezableClassDecoratorData of the wrapper classes of the program:
\* freezable() on Node, freezable(let_melt=True) on Leaf,
\* freezable(let_freeze=False) on Stone
FreezableWrapper_decorator(w) ==
    IF w = FLeaf THEN [let_freeze |-> TRUE, let_melt |-> TRUE]
    ELSE IF w = FStone THEN [let_freeze |-> FALSE, let_melt |-> FALSE]
    ELSE [let_freeze |-> TRUE, let_melt |-> FALSE]

\* FreezableWrapper.freeze without the test of let_freeze
FreezableWrapper_freeze_Always(o, deep, os, ca) ==
    [exc |-> "ok", os |-> _set_frozen_state(o, TRUE, deep, os, ca)]

\* FreezableWrapper.freeze(deep) on an instance: the exception and the instances
FreezableWrapper_freeze(o, deep, os, ca) ==
    IF FreezableWrapper_decorator(GetWrapperClass("Freezable", os[o].cls)).let_freeze
    THEN [exc |-> "ok", os |-> _set_frozen_state(o, TRUE, deep, os, ca)]
    ELSE [exc |-> "PermissionError", os |-> os]

\* FreezableWrapper.melt(deep) on an instance
FreezableWrapper_melt(o, deep, os, ca) ==
    IF FreezableWrapper_decorator(GetWrapperClass("Freezable", os[o].cls)).let_melt
    THEN [exc |-> "ok", os |-> _set_frozen_state(o, FALSE, deep, os, ca)]
    ELSE [exc |-> "PermissionError", os |-> os]

\* the objects that copy.deepcopy(o) copies: those reachable from D through
\* the attributes of instances
RECURSIVE Reachable(_, _)
Reachable(D, os) ==
    Let(D \cup UNION {os[x].kids : x \in D}, LAMBDA next :
    IF next = D THEN D ELSE Reachable(next, os))

FreeIds(os) == {i \in DOMAIN os : os[i].cls = None}

\* copy.deepcopy(o) (deep) or copy.copy(o): `to` maps the copied objects to
\* their copies, which take free ids; the attributes of a copy made by
\* deepcopy hold the copies
CopyObj(o, deep, os) ==
    Let(IF deep THEN SetToSeq(Reachable({o}, os)) ELSE <<o>>, LAMBDA src :
    Let(SetToSeq(FreeIds(os)), LAMBDA dst :
    IF Len(dst) < Len(src) THEN [fits |-> FALSE, new |-> o, os |-> os]
    ELSE
    LET to == [x \in Range(src) |-> dst[CHOOSE i \in 1..Len(src) : src[i] = x]]
        from == [n \in {to[x] : x \in Range(src)} |-> CHOOSE x \in Range(src) : to[x] = n]
    IN  [fits |-> TRUE, new |-> to[o],
         os |-> [i \in DOMAIN os |->
                    IF i \in DOMAIN from
                    THEN IF deep THEN [os[from[i]] EXCEPT !.kids = {to[k] : k \in @}]
                         ELSE os[from[i]]
                    ELSE os[i]]]))

\* Freezable.copy(deep, frozen): frozen is "None", "True" or "False"
Freezable_copy(o, deep, frozen, os, ca) ==
    Let(CopyObj(o, deep, os), LAMBDA c :
    IF frozen = None \/ ~c.fits THEN c
    ELSE [c EXCEPT !.os = _set_frozen_state(c.new, frozen = "True", deep, c.os, ca)])

(***************************************************************************)
(* The load steps of the aspects and ClassWrapperBase.__init__.            *)
(***************************************************************************)
\* ClassAttrs is clsattr where no class holds an object
NoClassAttrs == <<>>

\* Freezable.__load__(self, frozen=False)
Freezable_load(o, kwargs, os) ==
    LET frozen == IF "frozen" \in DOMAIN kwargs THEN kwargs["frozen"] ELSE FALSE
        set == [os EXCEPT ![o].has = @ \cup {"__frozen__"}, ![o].frozen = frozen]
    IN  IF frozen THEN _set_frozen_state(o, TRUE, FALSE, set, NoClassAttrs) ELSE set

\* `for key in locks: self.lock(key)`: stops at the first exception
RECURSIVE LockEach(_, _, _, _, _)
LockEach(o, keys, callers, os, c) ==
    IF keys = <<>> THEN [exc |-> "ok", os |-> os, cache |-> c]
    ELSE Let(LockableWrapper_lock(o, Head(keys), callers, os, c), LAMBDA r :
         IF r.exc # "ok" THEN [exc |-> r.exc, os |-> os, cache |-> r.cache]
         ELSE LockEach(o, Tail(keys), callers,
                       [os EXCEPT ![o].locks = r.locks], r.cache))

\* Lockable.__load__(self, locks=None); locks is a sequence of keys
Lockable_load(o, kwargs, callers, os, c) ==
    LET empty == [os EXCEPT ![o].has = @ \cup {"__locks__"}, ![o].locks = {}]
        frames == <<MethodFrame("Lockable", "__load__", os[o].cls)>> \o callers
    IN  IF "locks" \in DOMAIN kwargs /\ kwargs["locks"] # <<>>
        THEN LockEach(o, kwargs["locks"], frames, empty, c)
        ELSE [exc |-> "ok", os |-> empty, cache |-> c]

\* parent_cls.__load__(self, **augmented_kwargs)
Load(parent_cls, o, kwargs, callers, os, c) ==
    IF parent_cls = "Freezable"
    THEN [exc |-> "ok", os |-> Freezable_load(o, kwargs, os), cache |-> c]
    ELSE IF parent_cls = "Lockable" THEN Lockable_load(o, kwargs, callers, os, c)
    ELSE [exc |-> "ok", os |-> os, cache |-> c]            \* Alienatable.__load__: pass

\* inspect.getfullargspec(parent_cls.__load__)
LoadSpec(parent_cls) ==
    IF parent_cls = "Freezable" THEN ArgSpec(<<"self", "frozen">>, <<>>, FALSE, {})
    ELSE ArgSpec(<<"self", "locks">>, <<>>, FALSE, {})

\* the intended method: the __init__ of the decorated classes of the program
\*   Account.__init__(self, x=0)          Other: none (object.__init__(self))
\*   Doc.__init__(self, x, y=0)           Memo.__init__(self, x, **kw)
\*   Node.__init__(self, *, v=0)          Leaf.__init__(self, *, v=0)
IntendedSpec(decorated_cls) ==
    CASE decorated_cls = "Account" -> ArgSpec(<<"self", "x">>, <<>>, FALSE, {})
      [] decorated_cls = "Doc" -> ArgSpec(<<"self", "x", "y">>, <<>>, FALSE, {"x"})
      [] decorated_cls = "Memo" -> ArgSpec(<<"self", "x">>, <<>>, TRUE, {"x"})
      [] decorated_cls \in {"Node", "Leaf"} -> ArgSpec(<<"self">>, <<"v">>, FALSE, {})
      [] OTHER -> ArgSpec(<<"self">>, <<>>, FALSE, {})

\* the body of the user's __init__: self.a = 0
UserInit(o, os) == [os EXCEPT ![o].has = @ \cup {"a"}, ![o].a = 0]

LoadEvent(parent_cls, kwargs) == [ev |-> "load", aspect |-> parent_cls, kwargs |-> kwargs]

\* the call of the user's constructor, with what it was given, whether the
\* arguments bound, and the instance as the constructor finds it
InitEvent(cls, args, kwargs, exc, seen) ==
    [ev |-> "init", cls |-> cls, args |-> args, kwargs |-> kwargs, exc |-> exc,
     seen |-> seen]

\* the frames of XWrapper.__init__ and ClassWrapperBase.__init__ above `callers`
InitFrames(wrapper_cls, cls, callers) ==
    << Frame("ClassWrapperBase.__init__", "__init__", 4, cls),
       Frame(Bases(wrapper_cls)[2] \o "Wrapper.__init__", "__init__", 0, None) >> \o callers

\* the call of the decorated class's own __init__ (wrapped_cls == decorated_cls)
UserInitCall(o, decorated_cls, args, intended_kwargs, os, c) ==
    Let(Bind(IntendedSpec(decorated_cls), args, intended_kwargs), LAMBDA bound :
    [exc |-> bound,
     os |-> IF bound = "ok" THEN UserInit(o, os) ELSE os,
     cache |-> c,
     trace |-> <<InitEvent(decorated_cls, args, intended_kwargs, bound, os[o])>>])

\* the arguments tailored for a wrapper class
Tailored(args, kwargs, wrapper_cls) ==
    tailor_arguments(IntendedSpec(DecoratedCls(wrapper_cls)),
                     LoadSpec(Bases(wrapper_cls)[2]), args, kwargs, 1, 1)

\* ClassWrapperBase.__init__(self, args, kwargs, wrapper_cls): the exception
\* ("ok": none), the instances and the cache afterwards and the calls made, in
\* order.  The variant that calls the wrapped constructor before the load step.
RECURSIVE ClassWrapperBase_init(_, _, _, _, _, _, _)
ClassWrapperBase_init_InitFirst(o, args, kwargs, wrapper_cls, callers, os, c) ==
    Let(Tailored(args, kwargs, wrapper_cls), LAMBDA t :
    Let(InitFrames(wrapper_cls, os[o].cls, callers), LAMBDA frames :
    Let(IF Bases(wrapper_cls)[1] = DecoratedCls(wrapper_cls)
        THEN UserInitCall(o, DecoratedCls(wrapper_cls), args, t.intended_kwargs, os, c)
        ELSE ClassWrapperBase_init(o, args, t.kwargs, Bases(wrapper_cls)[1], frames, os, c),
        LAMBDA inner :
    IF inner.exc # "ok" THEN inner
    ELSE
    Let(Load(Bases(wrapper_cls)[2], o, t.augmented_kwargs, frames, inner.os, inner.cache),
        LAMBDA ld :
    [exc |-> ld.exc, os |-> ld.os, cache |-> ld.cache,
     trace |-> inner.trace \o <<LoadEvent(Bases(wrapper_cls)[2], t.augmented_kwargs)>>]))))

\* ClassWrapperBase.__init__ as it is: parent_cls.__load__ first, then
\* wrapped_cls.__init__: the user's constructor with the intended kwargs when
\* wrapped_cls is the decorated class, else the inner wrapper's with kwargs
ClassWrapperBase_init(o, args, kwargs, wrapper_cls, callers, os, c) ==
    Let(Tailored(args, kwargs, wrapper_cls), LAMBDA t :
    Let(InitFrames(wrapper_cls, os[o].cls, callers), LAMBDA frames :
    Let(Load(Bases(wrapper_cls)[2], o, t.augmented_kwargs, frames, os, c), LAMBDA ld :
    IF ld.exc # "ok"
    THEN [exc |-> ld.exc, os |-> ld.os, cache |-> ld.cache,
          trace |-> <<LoadEvent(Bases(wrapper_cls)[2], t.augmented_kwargs)>>]
    ELSE
    Let(IF Bases(wrapper_cls)[1] = DecoratedCls(wrapper_cls)
        THEN UserInitCall(o, DecoratedCls(wrapper_cls), args, t.intended_kwargs,
                          ld.os, ld.cache)
        ELSE ClassWrapperBase_init(o, args, t.kwargs, Bases(wrapper_cls)[1], frames,
                                   ld.os, ld.cache),
        LAMBDA inner :
    [inner EXCEPT !.trace = <<LoadEvent(Bases(wrapper_cls)[2], t.augmented_kwargs)>> \o @]))))

(***************************************************************************)
(* Guarded methods.  The user method is setv(self, v): self.a = v; return v *)
(***************************************************************************)
\* what the guards read from the object a method is called on: whether it is
\* a Freezable, a Lockable, a View, the values of obj.__frozen__ and
\* obj.__locks__, and which of the two reads raise AttributeError
Receiver(o, os) ==
    [freezable |-> IsSubclass(os[o].cls, "Freezable"),
     lockable |-> IsSubclass(os[o].cls, "Lockable"),
     view |-> FALSE, frozen |-> os[o].frozen, locks |-> os[o].locks,
     missing |-> {"__frozen__", "__locks__"} \ os[o].has]

\* a freezable_wrapper that does not look at the frozen flag
freezable_wrapper_Unchecked(obj) ==
    IF obj.freezable \/ obj.view THEN "call" ELSE "DecorationUsageError"

\* freezable_wrapper: "call" stands for `return method(*args, **kwargs)`
freezable_wrapper(obj) ==
    IF obj.freezable \/ obj.view
    THEN IF "__frozen__" \in obj.missing THEN "AttributeError"
         ELSE IF obj.frozen THEN "FrozenError" ELSE "call"
    ELSE "DecorationUsageError"

\* a lockable_wrapper that does not look at the lock set
lockable_wrapper_Unchecked(keys, obj) ==
    IF obj.lockable \/ obj.view THEN "call" ELSE "DecorationUsageError"

\* lockable_wrapper of a method decorated with `keys`
lockable_wrapper(keys, obj) ==
    IF obj.lockable \/ obj.view
    THEN IF "__locks__" \in obj.missing THEN "AttributeError"
         ELSE IF keys \cap obj.locks # {} THEN "LockedError" ELSE "call"
    ELSE "DecorationUsageError"

\* the call fn(obj, v): the exception of the first guard that refuses, or "ok"
\* when the call reaches the body of the user's method
RECURSIVE CallMethod(_, _)
CallMethod(fn, obj) ==
    Let(IF fn.code = "freezable_wrapper" THEN freezable_wrapper(obj)
        ELSE IF fn.code = "lockable_wrapper" THEN lockable_wrapper(SetvKeys, obj)
        ELSE "body", LAMBDA guard :
    IF guard = "body" THEN "ok"
    ELSE IF guard = "call" THEN CallMethod(fn.closure.cells[1], obj)
    ELSE guard)

\* the body of setv
SetvBody(o, v, os) == [os EXCEPT ![o].has = @ \cup {"a"}, ![o].a = v]

Values == 0..MaxVal

\* the classes that have the method setv
HasSetv(cls) == cls # None /\ Member(cls, "setv", FALSE) # {}

SetvOf(cls) == CHOOSE f \in Member(cls, "setv", FALSE) : TRUE

(***************************************************************************)
(* SpecCtor: instances of the wrapped classes are constructed with         *)
(* positional, keyword and aspect arguments from a method of Admin or of   *)
(* Guest, and the guarded method of the instance is called.                *)
(***************************************************************************)
NoObjs == [i \in ObjIds |-> NoObj]

TheInstance == Min(ObjIds)

CtorClasses == {LAccount, LOther, FLDoc, LFMemo}

CtorArgs == {<<>>, <<1>>}

\* the keyword arguments of a call: some of x, frozen=True and locks=[k]
CtorKwargs ==
    LET value(n, k) == CASE n = "x" -> 1
                         [] n = "frozen" -> TRUE
                         [] OTHER -> <<k>>
    IN  { [n \in given |-> value(n, k)] :
              given \in SUBSET {"x", "frozen", "locks"}, k \in Keys }

CtorCallers ==
    { <<MethodFrame("Admin", "act", "Admin"), ModuleFrame>>,
      <<MethodFrame("Guest", "act", "Guest"), ModuleFrame>> }

InitCtor ==
    /\ objs = NoObjs
    /\ clsattr = <<>>
    /\ decor = NoDecoration
    /\ cache = InitCache
    /\ views = <<>>
    /\ last = [op |-> "init"]

\* x = W(*args, **kwargs): object.__new__, then W.__init__; x is bound only
\* when no exception is raised
Construct(W, args, kwargs, callers) ==
    \E r \in {ClassWrapperBase_init(TheInstance, args, kwargs, W, callers,
                                    [NoObjs EXCEPT ![TheInstance].cls = W], cache)} :
        /\ objs' = IF r.exc = "ok" THEN r.os ELSE NoObjs
        /\ cache' = r.cache
        /\ last' = [op |-> "construct", cls |-> W, args |-> args, kwargs |-> kwargs,
                    callers |-> callers, exc |-> r.exc, trace |-> r.trace,
                    before |-> cache]
        /\ UNCHANGED <<clsattr, decor, views>>

\* x.setv(v)
Setv(o, v) ==
    /\ HasSetv(objs[o].cls)
    /\ \E exc \in {CallMethod(SetvOf(objs[o].cls), Receiver(o, objs))} :
           /\ objs' = IF exc = "ok" THEN SetvBody(o, v, objs) ELSE objs
           /\ last' = [op |-> "setv", obj |-> o, v |-> v, exc |-> exc,
                       returned |-> IF exc = "ok" THEN <<v>> ELSE <<>>,
                       before |-> objs[o]]
    /\ UNCHANGED <<clsattr, decor, cache, views>>

NextCtor ==
    \/ \E W \in CtorClasses, args \in CtorArgs, kwargs \in CtorKwargs,
          callers \in CtorCallers : Construct(W, args, kwargs, callers)
    \/ \E o \in ObjIds, v \in Values : Setv(o, v)

SpecCtor == InitCtor /\ [][NextCtor]_vars

(***************************************************************************)
(* SpecFreeze: a Node `root` whose attribute holds a Leaf, and a Leaf that  *)
(* class Node holds as a class attribute; each was constructed frozen or   *)
(* not.  They are frozen, melted, copied and changed by the guarded setv.  *)
(***************************************************************************)
\* cls(frozen=frozen) with the attributes `kids`
FreezeObj(cls, kwargs, kids) ==
    [UserInit(TheInstance,
              Freezable_load(TheInstance, kwargs,
                             [NoObjs EXCEPT ![TheInstance].cls = cls]))[TheInstance]
        EXCEPT !.kids = kids]

FrozenKwargs == {EmptyDict, [frozen |-> TRUE]}

\* the instances that the program constructs; the other ids are for copies
Constructed == 1..3

InitFreeze ==
    /\ \E k1 \in FrozenKwargs, k2 \in FrozenKwargs, k3 \in FrozenKwargs :
         objs = [i \in ObjIds |->
                    CASE i = 1 -> FreezeObj(FNode, k1, {2})
                      [] i = 2 -> FreezeObj(FLeaf, k2, {})
                      [] i = 3 -> FreezeObj(FLeaf, k3, {})
                      [] OTHER -> NoObj]
    /\ clsattr = [c \in {"Node"} |-> {3}]
    /\ decor = NoDecoration
    /\ cache = InitCache
    /\ views = <<>>
    /\ last = [op |-> "init"]

Freezables == {o \in ObjIds : objs[o].cls # None /\ IsFreezable(o, objs)}

Freeze(o, deep) ==
    \E r \in {FreezableWrapper_freeze(o, deep, objs, clsattr)} :
        /\ objs' = r.os
        /\ last' = [op |-> "freeze", obj |-> o, deep |-> deep, exc |-> r.exc,
                    before |-> {x \in ObjIds : objs[x].frozen}]
        /\ UNCHANGED <<clsattr, decor, cache, views>>

Melt(o, deep) ==
    \E r \in {FreezableWrapper_melt(o, deep, objs, clsattr)} :
        /\ objs' = r.os
        /\ last' = [op |-> "melt", obj |-> o, deep |-> deep, exc |-> r.exc,
                    before |-> {x \in ObjIds : objs[x].frozen}]
        /\ UNCHANGED <<clsattr, decor, cache, views>>

\* new = o.copy(deep, frozen), while ids are left for the copies
Copy(o, deep, frozen) ==
    \E r \in {Freezable_copy(o, deep, frozen, objs, clsattr)} :
        /\ r.fits
        /\ objs' = r.os
        /\ last' = [op |-> "copy", obj |-> o, deep |-> deep, frozen |-> frozen,
                    new |-> r.new, before |-> objs]
        /\ UNCHANGED <<clsattr, decor, cache, views>>

NextFreeze ==
    \/ \E o \in Freezables, deep \in BOOLEAN : Freeze(o, deep)
    \/ \E o \in Freezables, deep \in BOOLEAN : Melt(o, deep)
    \/ \E o \in Freezables, v \in Values : Setv(o, v)

SpecFreeze == InitFreeze /\ [][NextFreeze]_vars

(***************************************************************************)
(* SpecDeep: freeze, melt and setv on a Node that holds a Leaf, a Plain    *)
(* object (not freezable) that holds another Leaf, and, as a class         *)
(* attribute, a Stone, which the first Leaf holds as well.                 *)
(***************************************************************************)
InitDeep ==
    /\ \E k1 \in FrozenKwargs, k2 \in FrozenKwargs, k3 \in FrozenKwargs, k5 \in FrozenKwargs :
         objs = [i \in ObjIds |->
                    CASE i = 1 -> FreezeObj(FNode, k1, {2, 4})
                      [] i = 2 -> FreezeObj(FLeaf, k2, {3})
                      [] i = 3 -> FreezeObj(FStone, k3, {})
                      [] i = 4 -> [NoObj EXCEPT !.cls = "Plain", !.kids = {5}]
                      [] i = 5 -> FreezeObj(FLeaf, k5, {})
                      [] OTHER -> NoObj]
    /\ clsattr = [c \in {"Node"} |-> {3}]
    /\ decor = NoDecoration
    /\ cache = InitCache
    /\ views = <<>>
    /\ last = [op |-> "init"]

SpecDeep == InitDeep /\ [][NextFreeze]_vars

\* SpecCopy: the same instances, and the constructed ones are copied as well
NextCopy ==
    \/ NextFreeze
    \/ \E o \in Constructed, deep \in BOOLEAN, frozen \in {None, "True", "False"} :
           Copy(o, deep, frozen)

SpecCopy == InitFreeze /\ [][NextCopy]_vars

(***************************************************************************)
(* Views.  A view is [obj, over, mixins, has, frozen, view_locks]: the      *)
(* instance it views, the view that its __obj__ holds (0: __obj__ is the   *)
(* instance itself), the aspects whose View classes its class inherits,    *)
(* the names in its own __dict__, and the values of its own __frozen__ and *)
(* __view_locks__.  The attributes followed are a, __frozen__, __locks__.  *)
(***************************************************************************)
\* a locked_in_view that does not look at self
locked_in_view_Unchecked(self_is_view) == "call"

\* locked_in_view's method_wrapper: "call" stands for `return method(self, ...)`
locked_in_view(self_is_view) ==
    IF self_is_view THEN "PermissionError" ELSE "call"

\* ClassWrapperBase.view(): MultiView of the View classes of the wrappers in
\* the MRO; Lockable.View.__init__ copies obj.__locks__, View.__init__ sets
\* __obj__
ClassWrapperBase_view(o, os) ==
    LET mixins == {a \in AspectClasses : IsSubclass(os[o].cls, a)}
    IN  IF "Lockable" \in mixins /\ "__locks__" \notin os[o].has
        THEN [exc |-> "AttributeError", views |-> <<>>]
        ELSE [exc |-> "ok",
              views |-> << [obj |-> o, over |-> 0, mixins |-> mixins,
                            has |-> {"__obj__"} \cup
                                    (IF "Lockable" \in mixins THEN {"__view_locks__"} ELSE {}),
                            frozen |-> FALSE,
                            view_locks |-> IF "Lockable" \in mixins THEN os[o].locks
                                           ELSE {}] >>]

\* object.__getattribute__(view, name) returns: the name is in the view's
\* __dict__ or is a class attribute of its class.  The property __locks__ of
\* Lockable.View raises AttributeError (it reads self._View__obj).
FoundOnView(w, name) ==
    \/ name \in w.has
    \/ name = "__frozen__" /\ "Freezable" \in w.mixins

\* what the guards read from a view: View.__getattribute__ forwards what is not
\* found on the view to the instance
ViewReceiver(w, os) ==
    [freezable |-> FALSE, lockable |-> FALSE, view |-> TRUE,
     frozen |-> IF "__frozen__" \in w.has THEN w.frozen
                ELSE IF "Freezable" \in w.mixins THEN TRUE
                ELSE os[w.obj].frozen,
     locks |-> os[w.obj].locks,
     missing |-> {n \in {"__frozen__", "__locks__"} :
                     ~FoundOnView(w, n) /\ n \notin os[w.obj].has}]

\* setattr(obj, key, value) on an instance
SetAttr(o, key, value, os) ==
    CASE key = "a" -> [os EXCEPT ![o].has = @ \cup {key}, ![o].a = value]
      [] key = "__frozen__" -> [os EXCEPT ![o].has = @ \cup {key}, ![o].frozen = value]
      [] key = "__locks__" -> [os EXCEPT ![o].has = @ \cup {key}, ![o].locks = value]

\* delattr(obj, key) on an instance that has the attribute
DelAttr(o, key, os) ==
    CASE key = "a" -> [os EXCEPT ![o].has = @ \ {key}, ![o].a = 0]
      [] key = "__frozen__" -> [os EXCEPT ![o].has = @ \ {key}, ![o].frozen = FALSE]
      [] key = "__locks__" -> [os EXCEPT ![o].has = @ \ {key}, ![o].locks = {}]

\* View.__setattr__(key, value): on the view when the view has the name, else
\* on the instance
View_setattr(w, key, value, os) ==
    IF FoundOnView(w, key)
    THEN [exc |-> "ok", view |-> [w EXCEPT !.has = @ \cup {key}, !.frozen = value], os |-> os]
    ELSE [exc |-> "ok", view |-> w, os |-> SetAttr(w.obj, key, value, os)]

\* View.__delattr__(item): object.__delattr__ raises AttributeError for a name
\* that is not in the view's __dict__, and the except branch deletes it on the
\* instance
View_delattr(w, item, os) ==
    IF item \in w.has
    THEN [exc |-> "ok", view |-> [w EXCEPT !.has = @ \ {item}, !.frozen = FALSE], os |-> os]
    ELSE IF item \in os[w.obj].has
    THEN [exc |-> "ok", view |-> w, os |-> DelAttr(w.obj, item, os)]
    ELSE [exc |-> "AttributeError", view |-> w, os |-> os]

\* view.freeze() / view.melt(), view.lock(key) / view.unlock(key): the function
\* of the instance's class is called with the view as self.  Past
\* method_wrapper, freeze and melt would assign self.__frozen__, lock and
\* unlock would change the set that self.__locks__ gives.
View_call(w, op, key, os) ==
    Let(locked_in_view(TRUE), LAMBDA entered :
    IF entered # "call" THEN [exc |-> entered, view |-> w, os |-> os]
    ELSE IF op \in {"freeze", "melt"}
    THEN View_setattr(w, "__frozen__", op = "freeze", os)
    ELSE IF "__locks__" \notin os[w.obj].has
    THEN [exc |-> "AttributeError", view |-> w, os |-> os]
    ELSE [exc |-> "ok", view |-> w,
          os |-> [os EXCEPT ![w.obj].locks = IF op = "lock" THEN @ \cup {key}
                                              ELSE @ \ {key}]])

\* view.setv(v): the guards read the view, the body assigns self.a
View_setv(w, v, os) ==
    Let(CallMethod(SetvOf(os[w.obj].cls), ViewReceiver(w, os)), LAMBDA exc :
    IF exc = "ok" THEN View_setattr(w, "a", v, os)
    ELSE [exc |-> exc, view |-> w, os |-> os])

(***************************************************************************)
(* SpecView: an instance of a wrapped class is constructed, views of it    *)
(* are made, and everything else is done through the views.                *)
(***************************************************************************)
ViewClasses == {LAccount, FLDoc, LFMemo, FNode}

AdminCaller == <<MethodFrame("Admin", "act", "Admin"), ModuleFrame>>

InitView ==
    /\ \E W \in ViewClasses, kwargs \in CtorKwargs :
         \E r \in {ClassWrapperBase_init(TheInstance, <<>>, kwargs, W, AdminCaller,
                                         [NoObjs EXCEPT ![TheInstance].cls = W],
                                         InitCache)} :
             /\ r.exc = "ok"
             /\ objs = r.os
             /\ cache = r.cache
    /\ clsattr = NoClassAttrs
    /\ decor = NoDecoration
    /\ views = <<>>
    /\ last = [op |-> "init"]

ViewIds == 1..Len(views)

\* what an operation through view v gives: the view and the instances after it
ViewStep(v, r) ==
    /\ views' = [views EXCEPT ![v] = r.view]
    /\ objs' = r.os
    /\ UNCHANGED <<clsattr, decor, cache>>

\* x.view()
MakeView(o) ==
    /\ Len(views) < MaxViews
    /\ objs[o].cls # None
    /\ \E r \in {ClassWrapperBase_view(o, objs)} :
           /\ views' = views \o r.views
           /\ last' = [op |-> "view", obj |-> o, exc |-> r.exc]
    /\ UNCHANGED <<objs, clsattr, decor, cache>>

\* view.freeze(), view.melt()
ViewFreezeMelt(v, op) ==
    /\ "Freezable" \in views[v].mixins
    /\ \E r \in {View_call(views[v], op, None, objs)} :
           /\ ViewStep(v, r)
           /\ last' = [op |-> op, view |-> v, exc |-> r.exc,
                       before |-> objs[views[v].obj], vbefore |-> views[v]]

\* view.lock(key), view.unlock(key)
ViewLockUnlock(v, op, key) ==
    /\ "Lockable" \in views[v].mixins
    /\ \E r \in {View_call(views[v], op, key, objs)} :
           /\ ViewStep(v, r)
           /\ last' = [op |-> op, view |-> v, key |-> key, exc |-> r.exc,
                       before |-> objs[views[v].obj], vbefore |-> views[v]]

\* view.setv(val)
ViewSetv(v, val) ==
    /\ HasSetv(objs[views[v].obj].cls)
    /\ \E r \in {View_setv(views[v], val, objs)} :
           /\ ViewStep(v, r)
           /\ last' = [op |-> "setv", view |-> v, v |-> val, exc |-> r.exc,
                       before |-> objs[views[v].obj], vbefore |-> views[v]]

\* the values that the program assigns to an attribute
AttrValues(key) ==
    CASE key = "a" -> Values
      [] key = "__frozen__" -> BOOLEAN
      [] key = "__locks__" -> SUBSET {"admin"}

AttrNames == {"a", "__frozen__", "__locks__"}

\* view.key = value
ViewSetAttr(v, key, value) ==
    \E r \in {View_setattr(views[v], key, value, objs)} :
        /\ ViewStep(v, r)
        /\ last' = [op |-> "setattr", view |-> v, key |-> key, value |-> value,
                    exc |-> r.exc, before |-> objs[views[v].obj], vbefore |-> views[v]]

\* del view.key
ViewDelAttr(v, key) ==
    \E r \in {View_delattr(views[v], key, objs)} :
        /\ ViewStep(v, r)
        /\ last' = [op |-> "delattr", view |-> v, key |-> key, exc |-> r.exc,
                    before |-> objs[views[v].obj], vbefore |-> views[v]]

NextView ==
    \/ \E o \in ObjIds : MakeView(o)
    \/ \E v \in ViewIds, op \in {"freeze", "melt"} : ViewFreezeMelt(v, op)
    \/ \E v \in ViewIds, op \in {"lock", "unlock"}, key \in Keys : ViewLockUnlock(v, op, key)
    \/ \E v \in ViewIds, val \in Values : ViewSetv(v, val)
    \/ \E v \in ViewIds, key \in AttrNames : \E value \in AttrValues(key) :
           ViewSetAttr(v, key, value)
    \/ \E v \in ViewIds, key \in AttrNames : ViewDelAttr(v, key)

SpecView == InitView /\ [][NextView]_vars

(***************************************************************************)
(* Views of views.  vs are the views made so far, i the position of the    *)
(* view that is viewed or used.                                            *)
(***************************************************************************)
\* the value of an attribute of an instance
InstAttr(o, item, os) ==
    CASE item = "a" -> os[o].a
      [] item = "__frozen__" -> os[o].frozen
      [] item = "__locks__" -> os[o].locks

\* View.__getattribute__(item) for a data attribute: the view's own value when
\* object.__getattribute__ finds it, else getattr(self.__obj__, item), which
\* for a view of a view asks the viewed view in turn
RECURSIVE View_getattribute(_, _, _, _)
View_getattribute(i, item, vs, os) ==
    IF FoundOnView(vs[i], item)
    THEN [exc |-> "ok",
          value |-> IF "__frozen__" \in vs[i].has THEN vs[i].frozen ELSE TRUE]
    ELSE IF vs[i].over # 0 THEN View_getattribute(vs[i].over, item, vs, os)
    ELSE IF item \in os[vs[i].obj].has
    THEN [exc |-> "ok", value |-> InstAttr(vs[i].obj, item, os)]
    ELSE [exc |-> "AttributeError", value |-> InstAttr(vs[i].obj, item, [j \in DOMAIN os |-> NoObj])]

\* MultiView's view(self): object.__new__(type(self)) and __init__(self): the
\* View classes' __init__ run with the view as obj, Lockable.View.__init__
\* copies obj.__locks__, and View.__init__ stores the view in __obj__
MultiView_view(i, vs, os) ==
    Let(View_getattribute(i, "__locks__", vs, os), LAMBDA locks :
    IF "Lockable" \in vs[i].mixins /\ locks.exc # "ok"
    THEN [exc |-> locks.exc, views |-> <<>>]
    ELSE [exc |-> "ok",
          views |-> << [obj |-> vs[i].obj, over |-> i, mixins |-> vs[i].mixins,
                        has |-> {"__obj__"} \cup
                                (IF "Lockable" \in vs[i].mixins THEN {"__view_locks__"} ELSE {}),
                        frozen |-> FALSE,
                        view_locks |-> IF "Lockable" \in vs[i].mixins THEN locks.value
                                       ELSE {}] >>])

\* view.name(...) for a method of the instance's class (freeze, melt, lock,
\* unlock, setv): View.__getattribute__ takes getattr(self.__obj__, name) and,
\* as it is a bound method, getattr(type(self.__obj__), name); the class of a
\* view has no such attribute
View_method(i, op, key, val, vs, os) ==
    IF vs[i].over # 0 THEN [exc |-> "AttributeError", view |-> vs[i], os |-> os]
    ELSE IF op = "setv" THEN View_setv(vs[i], val, os)
    ELSE View_call(vs[i], op, key, os)

\* the methods of the instance's class
MethodsOf(cls) ==
    (IF IsSubclass(cls, "Freezable") THEN {"freeze", "melt"} ELSE {})
    \cup (IF IsSubclass(cls, "Lockable") THEN {"lock", "unlock"} ELSE {})
    \cup (IF HasSetv(cls) THEN {"setv"} ELSE {})

(***************************************************************************)
(* SpecNested: an instance is constructed, a view of it and views of the   *)
(* views are made; attributes are read and methods are called through any  *)
(* of them, attributes are assigned and deleted through the first.         *)
(***************************************************************************)
TopViews == {v \in ViewIds : views[v].over = 0}

\* view.view()
ViewOfView(v) ==
    /\ Len(views) < MaxViews + MaxNested
    /\ \E r \in {MultiView_view(v, views, objs)} :
           /\ views' = views \o r.views
           /\ last' = [op |-> "viewview", view |-> v, exc |-> r.exc]
    /\ UNCHANGED <<objs, clsattr, decor, cache>>

\* view.item
NestedRead(v, item) ==
    /\ \E r \in {View_getattribute(v, item, views, objs)} :
           last' = [op |-> "read", view |-> v, item |-> item, exc |-> r.exc,
                    value |-> r.value]
    /\ UNCHANGED <<objs, clsattr, decor, cache, views>>

\* view.op(...)
NestedCall(v, op, key, val) ==
    /\ op \in MethodsOf(objs[views[v].obj].cls)
    /\ op \notin {"lock", "unlock"} => key = "admin"       \* no key argument
    /\ op # "setv" => val = 0                                \* no value argument
    /\ \E r \in {View_method(v, op, key, val, views, objs)} :
           /\ ViewStep(v, r)
           /\ last' = [op |-> "call", view |-> v, name |-> op, key |-> key, v |-> val,
                       exc |-> r.exc]

NextNested ==
    \/ \E o \in ObjIds : MakeView(o)
    \/ \E v \in ViewIds : ViewOfView(v)
    \/ \E v \in ViewIds, item \in AttrNames : NestedRead(v, item)
    \/ \E v \in ViewIds, op \in {"freeze", "melt", "lock", "unlock", "setv"},
          key \in Keys, val \in Values : NestedCall(v, op, key, val)
    \/ \E v \in TopViews, key \in AttrNames : \E value \in AttrValues(key) :
           ViewSetAttr(v, key, value)
    \/ \E v \in TopViews, key \in AttrNames : ViewDelAttr(v, key)

SpecNested == InitView /\ [][NextNested]_vars

(***************************************************************************)
(* Decoration.  d is the state of the decorators (see NoDecoration).  The  *)
(* class decorator types are named by their aspects.                       *)
(***************************************************************************)
\* MethodSpec.has_same_class: the methods are of the same module here
has_same_class(self, other) == self.cls = other.cls

\* current_decorator_specs[t] of the defaultdict: a missing entry is made, empty
SpecsOf(d, t) == IF t \in DOMAIN d.specs THEN d.specs[t] ELSE {}

\* MethodDecorator.__call__(method) (first call): the outcomes, each the
\* exception and the state of the decorators afterwards.  The message of
\* DecorationUsageError is made with current_decorator_specs[...].pop(), which
\* takes any one MethodSpec out of the set and raises KeyError on an empty set.
MethodDecorator_call(d, cls, aspect, keys) ==
    Let(MethodSpec(cls, aspect, keys, d.made + 1), LAMBDA spec :
    IF \/ d.last_spec.none
       \/ DOMAIN d.specs = {}
       \/ has_same_class(d.last_spec, spec)
    THEN {[exc |-> "ok",
           decor |-> [d EXCEPT !.last_spec = spec, !.made = @ + 1,
                               !.specs = Update(@, [t \in {aspect} |->
                                                       SpecsOf(d, aspect) \cup {spec}])]]}
    ELSE IF SpecsOf(d, aspect) = {}
    THEN {[exc |-> "KeyError",
           decor |-> [d EXCEPT !.specs = Update(@, [t \in {aspect} |-> {}])]]}
    ELSE {[exc |-> "DecorationUsageError",
           decor |-> [d EXCEPT !.specs = Update(@, [t \in {aspect} |->
                                                       SpecsOf(d, aspect) \ {popped}])]] :
             popped \in SpecsOf(d, aspect)})

\* ClassDecorator.__call__(cls, wrapper) (second call): del current_decorator_specs[type(self)]
ClassDecorator_call(d, aspect) ==
    [d EXCEPT !.specs = Restrict(@, DOMAIN @ \ {aspect})]

\* LockableMethodDecorator.__init__(keys): keys is [given, keys]
LockableMethodDecorator_init(keys) == IF keys.given THEN "ok" ELSE "ValueError"

\* lockable(lock_permissions, unlock_permissions): LockableClassDecorator.__init__
\* raises ValueError when lock_permissions is None
lockable(lock_permissions, unlock_permissions) ==
    [exc |-> IF lock_permissions.given THEN "ok" ELSE "ValueError",
     decorator |-> LockableClassDecorator_init(lock_permissions, unlock_permissions)]

\* LockableClassDecoratorData.__init__, `if issubclass(cls, Lockable)`: the
\* keys of the wrapper in the MRO that the new table does not have are taken
\* over with their class sets, and its declared keys are added
LockableClassDecoratorData_inherit(data, wrapper) ==
    [locks |-> data.locks \cup wrapper.locks,
     lock_permissions |->
        [k \in DOMAIN data.lock_permissions \cup DOMAIN wrapper.lock_permissions |->
            IF k \in DOMAIN data.lock_permissions THEN data.lock_permissions[k]
            ELSE wrapper.lock_permissions[k]],
     unlock_permissions |->
        [k \in DOMAIN data.unlock_permissions \cup DOMAIN wrapper.unlock_permissions |->
            IF k \in DOMAIN data.unlock_permissions THEN data.unlock_permissions[k]
            ELSE wrapper.unlock_permissions[k]]]

\* the classes that are decorated: Base, Sub (class Sub(Base), declared after
\* Base was decorated, so that its base is the wrapper of Base) and Peer
DecoratedClasses == {"Base", "Sub", "Peer"}

\* issubclass(cls, X) for these classes, `table` holding the __decorator__ of
\* the X wrappers
HasWrapper(cls, table) == cls = "Sub" /\ "Base" \in DOMAIN table

\* LockableClassDecorator.__call__(cls): the __decorator__ of the wrapper and
\* the state of the decorators afterwards
LockableClassDecorator_call(decorator, cls, d) ==
    Let(LockableClassDecoratorData_init(decorator, cls,
            UNION {spec.keys : spec \in SpecsOf(d, "Lockable")}), LAMBDA data :
    [exc |-> "ok",
     data |-> IF HasWrapper(cls, d.lock)
              THEN LockableClassDecoratorData_inherit(data, d.lock["Base"])
              ELSE data,
     decor |-> ClassDecorator_call(d, "Lockable")])

\* the friends argument of alienatable.cls: [kind, groups, classes], kind
\* "None", "dict" (groups: group -> classes; the group None is "None") or
\* "set" (classes)
NoFriends == [kind |-> "None", groups |-> <<>>, classes |-> {}]
FriendGroups(groups) == [kind |-> "dict", groups |-> groups, classes |-> {}]
FriendSet(classes) == [kind |-> "set", groups |-> <<>>, classes |-> classes]

\* AlienatableClassDecorator.__init__(friends)
AlienatableClassDecorator_init(friends) ==
    [exc |-> IF friends.kind = "None" THEN "ValueError" ELSE "ok",
     friends |-> IF friends.kind = "set" THEN [g \in {None} |-> friends.classes]
                 ELSE friends.groups]

\* AlienatableClassDecoratorData.__init__: self.friends[key] of the defaultdict
\* is a frozenset, never None, and frozenset has no update()
AlienatableClassDecoratorData_init(decorator, cls, d) ==
    IF HasWrapper(cls, d.alien) /\ DOMAIN d.alien["Base"] # {}
    THEN [exc |-> "AttributeError", friends |-> decorator.friends]
    ELSE [exc |-> "ok", friends |-> decorator.friends]

(***************************************************************************)
(* SpecDecorate: methods and classes are decorated.                        *)
(***************************************************************************)
InitDecorate ==
    /\ objs = NoObjs
    /\ clsattr = NoClassAttrs
    /\ decor = NoDecoration
    /\ cache = InitCache
    /\ views = <<>>
    /\ last = [op |-> "init"]

GuestOnly == [k \in {"admin"} |-> {"Guest"}]

\* the lock_permissions and unlock_permissions arguments
PermissionArgs ==
    {NotGiven, Permissions({}, <<>>), Permissions({"admin", "open"}, AdminOnly),
     Permissions({"admin"}, GuestOnly)}

\* the keys argument of lockable.method
KeysArgs == {[given |-> FALSE, keys |-> {}], [given |-> TRUE, keys |-> {"mkey"}]}

\* the friends argument
FriendsArgs ==
    {NoFriends, FriendGroups(<<>>), FriendSet({"Admin"}),
     FriendGroups([g \in {"g"} |-> {"Guest"}])}

\* @aspect.method(...) on a method of cls
DecorateMethod(cls, aspect, keys) ==
    /\ decor.made < MaxSpecs
    /\ aspect # "Lockable" => ~keys.given                           \* no keys argument
    /\ IF aspect = "Lockable" /\ LockableMethodDecorator_init(keys) # "ok"
       THEN /\ last' = [op |-> "method", cls |-> cls, aspect |-> aspect, keys |-> keys,
                        exc |-> LockableMethodDecorator_init(keys), before |-> decor]
            /\ UNCHANGED decor
       ELSE \E r \in MethodDecorator_call(decor, cls, aspect, keys.keys) :
                /\ decor' = r.decor
                /\ last' = [op |-> "method", cls |-> cls, aspect |-> aspect, keys |-> keys,
                            exc |-> r.exc, before |-> decor]
    /\ UNCHANGED <<objs, clsattr, cache, views>>

\* aspect.method(...)(value) where value is not a function: TypeError, raised
\* before the registry is looked at
DecorateValue(aspect) ==
    /\ last' = [op |-> "method_value", aspect |-> aspect, exc |-> "TypeError",
                before |-> decor]
    /\ UNCHANGED <<objs, clsattr, decor, cache, views>>

\* @lockable(lock_permissions, unlock_permissions) on cls
DecorateLockable(cls, lock_permissions, unlock_permissions) ==
    /\ cls = "Base" => "Base" \notin DOMAIN decor.lock
    /\ \E made \in {lockable(lock_permissions, unlock_permissions)} :
         IF made.exc # "ok"
         THEN /\ last' = [op |-> "lockable", cls |-> cls, exc |-> made.exc,
                          declared |-> made.decorator, before |-> decor,
                          lock_permissions |-> lock_permissions]
              /\ UNCHANGED decor
         ELSE \E r \in {LockableClassDecorator_call(made.decorator, cls, decor)} :
              /\ decor' = IF cls = "Base"
                          THEN [r.decor EXCEPT !.lock = [c \in {"Base"} |-> r.data]]
                          ELSE r.decor
              /\ last' = [op |-> "lockable", cls |-> cls, exc |-> r.exc,
                          declared |-> made.decorator, before |-> decor,
                          lock_permissions |-> lock_permissions, data |-> r.data]
    /\ UNCHANGED <<objs, clsattr, cache, views>>

\* @alienatable.cls(friends) on cls
DecorateAlienatable(cls, friends) ==
    /\ cls = "Base" => "Base" \notin DOMAIN decor.alien
    /\ \E made \in {AlienatableClassDecorator_init(friends)} :
         IF made.exc # "ok"
         THEN /\ last' = [op |-> "alienatable", cls |-> cls, exc |-> made.exc,
                          declared |-> made.friends, before |-> decor,
                          friends |-> friends]
              /\ UNCHANGED decor
         ELSE \E r \in {AlienatableClassDecoratorData_init(made, cls, decor)} :
              /\ decor' = IF r.exc # "ok" THEN decor
                          ELSE IF cls = "Base"
                          THEN [ClassDecorator_call(decor, "Alienatable")
                                   EXCEPT !.alien = [c \in {"Base"} |-> r.friends]]
                          ELSE ClassDecorator_call(decor, "Alienatable")
              /\ last' = [op |-> "alienatable", cls |-> cls, exc |-> r.exc,
                          declared |-> made.friends, before |-> decor,
                          friends |-> friends, data |-> r.friends]
    /\ UNCHANGED <<objs, clsattr, cache, views>>

\* @freezable() on cls
DecorateFreezable(cls) ==
    /\ decor' = ClassDecorator_call(decor, "Freezable")
    /\ last' = [op |-> "freezable", cls |-> cls, exc |-> "ok", before |-> decor]
    /\ UNCHANGED <<objs, clsattr, cache, views>>

NextDecorate ==
    \/ \E cls \in DecoratedClasses, aspect \in AspectClasses, keys \in KeysArgs :
           DecorateMethod(cls, aspect, keys)
    \/ \E cls \in DecoratedClasses, lp \in PermissionArgs,
             up \in {NotGiven, Permissions({"admin"}, GuestOnly)} :
           DecorateLockable(cls, lp, up)
    \/ \E cls \in DecoratedClasses, friends \in FriendsArgs : DecorateAlienatable(cls, friends)
    \/ \E cls \in DecoratedClasses : DecorateFreezable(cls)
    \/ \E aspect \in AspectClasses : DecorateValue(aspect)

SpecDecorate == InitDecorate /\ [][NextDecorate]_vars

(***************************************************************************)
(* alienatable.py: the guard of an alien method.                           *)
(***************************************************************************)
\* AlienatableWrapper.__decorator__.friends of the wrapper of Vault
AlienatableWrapper_friends(w) == [g \in {None, "g"} |-> IF g = None THEN {"Admin"} ELSE {"Guest"}]

\* the friend_list of alienatable.mth(friend_list=...) on the methods of Vault
FriendList(method) == IF method = "shared" THEN {"g"} ELSE {}

\* AlienatableMethodDecorator.get_valid_classes(type(obj)); friends is a
\* defaultdict that gives frozenset() for a group it does not have
get_valid_classes(friend_list, cls) ==
    LET wrapper == GetWrapperClass("Alienatable", cls)
        friends == AlienatableWrapper_friends(wrapper)
    IN  UNION {IF key \in DOMAIN friends THEN friends[key] ELSE {} :
                  key \in friend_list \cup {None}}

\* alienatable_wrapper of an alien method called on the instance o from
\* `callers`: run says whether method(*args, **kwargs) is called
alienatable_wrapper(friend_list, o, callers, os, c) ==
    IF ~IsSubclass(os[o].cls, "Alienatable")
    THEN [exc |-> "DecorationUsageError", run |-> FALSE, cache |-> c, resolver |-> NoResolver]
    ELSE
    Let(get_valid_classes(friend_list, os[o].cls), LAMBDA allowed_classes :
    Let(AfterResolver(
            is_calling_class_valid(allowed_classes, 0,
                                   <<ResolverFrame, AlienFrame>> \o callers, c),
            allowed_classes, "AlienError", {"run"}, {}), LAMBDA r :
    [exc |-> r.exc, run |-> r.locks # {}, cache |-> r.cache, resolver |-> r.resolver]))

(***************************************************************************)
(* SpecAlien: the alien methods secret and shared, and the plain method    *)
(* put, called on an instance of the alienatable class Vault and on an     *)
(* instance of Vault made before the class decorator ran.                  *)
(***************************************************************************)
AlienCallers ==
    CallerStacks \cup { <<MethodFrame("Admin", "act", "Auditor"), ModuleFrame>>,
                        <<MethodFrame("Vault", "put", AVault), ModuleFrame>>,
                        <<ModuleFrame>> }

InitAlien ==
    /\ objs = [i \in ObjIds |-> CASE i = 1 -> [NoObj EXCEPT !.cls = AVault]
                                  [] i = 2 -> [NoObj EXCEPT !.cls = "Vault"]
                                  [] OTHER -> NoObj]
    /\ clsattr = <<>>
    /\ decor = NoDecoration
    /\ cache = InitCache
    /\ views = <<>>
    /\ last = [op |-> "init"]

Vaults == {o \in ObjIds : objs[o].cls # None}

\* o.secret(v) / o.shared(v): the body stores v in the attribute a
CallAlien(o, method, v, callers) ==
    \E r \in {alienatable_wrapper(FriendList(method), o, callers, objs, cache)} :
        /\ objs' = IF r.run THEN [objs EXCEPT ![o].a = v] ELSE objs
        /\ cache' = r.cache
        /\ last' = [op |-> "alien", obj |-> o, method |-> method, value |-> v,
                    callers |-> callers, exc |-> r.exc, before |-> objs[o].a,
                    resolver |-> r.resolver]
        /\ UNCHANGED <<clsattr, decor, views>>

\* o.put(v): a method without a guard
CallPut(o, v) ==
    /\ objs' = [objs EXCEPT ![o].a = v]
    /\ last' = [op |-> "put", obj |-> o, value |-> v]
    /\ UNCHANGED <<clsattr, decor, cache, views>>

NextAlien ==
    \/ \E o \in Vaults, method \in {"secret", "shared"}, v \in 0..MaxVal,
          callers \in AlienCallers : CallAlien(o, method, v, callers)
    \/ \E o \in Vaults, v \in 0..MaxVal : CallPut(o, v)

SpecAlien == InitAlien /\ [][NextAlien]_vars

(***************************************************************************)
(* SpecClassify: the tracer classifies frames, one at a time, while the    *)
(* wrapper classes of Account and Other (which share the code objects of   *)
(* lock and unlock) may be destroyed.                                      *)
(***************************************************************************)
ClassifyFrames ==
    { GuardFrame(op, cls) : op \in {"lock", "unlock"}, cls \in {LAccount, LOther} }
    \cup { MethodFrame("Admin", "act", "Admin"), MethodFrame("Admin", "act", "SubAdmin"),
           MethodFrame("Admin", "act", "Auditor"), MethodFrame("Auditor", "act", "Auditor"),
           MethodFrame("Guest", "act", "Guest"), FreeFrame }

ClassifyHints == { {}, {"Admin"}, {"Guest"} }

InitClassify ==
    /\ objs = [i \in ObjIds |-> NoObj]
    /\ clsattr = <<>>
    /\ decor = NoDecoration
    /\ cache = [code \in {f.code : f \in ClassifyFrames} |-> Missing]
    /\ views = <<>>
    /\ last = [op |-> "init"]

\* the weak references of the cache entries whose class (and with it the
\* function in the class body) was destroyed are dead
Dead(entry) == [entry EXCEPT !.state = "dead"]

\* next(trace_execution(hint, skip_frames=1)) called from `frame`
Classify(frame, hint) ==
    /\ FirstArgClass(frame) \notin decor.gone
    /\ \E t \in {ExecutionTracer_call(hint, 1, <<frame>>, cache)} :
        /\ cache' = t.cache
        /\ last' = [op |-> "classify", frame |-> frame, hint |-> hint,
                    exc |-> IF t.err THEN "TypeError" ELSE "ok",
                    mtd |-> t.mtd, loc |-> t.loc, before |-> cache[frame.code]]
    /\ UNCHANGED <<objs, clsattr, decor, views>>

\* the last reference to the wrapper class cls goes away
Destroy(cls) ==
    /\ cls \notin decor.gone
    /\ decor' = [decor EXCEPT !.gone = @ \cup {cls}]
    /\ cache' = [code \in DOMAIN cache |->
                    IF cache[code].state = "cached" /\ cache[code].loc = cls
                    THEN Dead(cache[code]) ELSE cache[code]]
    /\ last' = [op |-> "destroy", cls |-> cls]
    /\ UNCHANGED <<objs, clsattr, views>>

NextClassify ==
    \/ \E frame \in ClassifyFrames, hint \in ClassifyHints : Classify(frame, hint)
    \/ \E cls \in {LAccount, LOther} : Destroy(cls)

SpecClassify == InitClassify /\ [][NextClassify]_vars

(***************************************************************************)
(* SpecLock: lock, unlock and locked called on three lockable instances    *)
(* (an Account, an Other and a Memo) from the callers above.               *)
(***************************************************************************)
LockObj(cls) == [NoObj EXCEPT !.cls = cls, !.has = {"__locks__"}]

InitLock ==
    /\ objs = [i \in ObjIds |-> CASE i = 1 -> LockObj(LAccount)
                                  [] i = 2 -> LockObj(LOther)
                                  [] i = 3 -> [LockObj(LFMemo) EXCEPT !.has = {"__locks__", "__frozen__"}]
                                  [] OTHER -> NoObj]
    /\ clsattr = <<>>
    /\ decor = NoDecoration
    /\ cache = InitCache
    /\ views = <<>>
    /\ last = [op |-> "init"]

Lockables == {o \in ObjIds : objs[o].cls # None /\ "__locks__" \in objs[o].has}

Lock(o, key, callers) ==
    \E r \in {LockableWrapper_lock(o, key, callers, objs, cache)} :
        /\ objs' = [objs EXCEPT ![o].locks = r.locks]
        /\ cache' = r.cache
        /\ last' = [op |-> "lock", obj |-> o, key |-> key, callers |-> callers,
                    exc |-> r.exc, before |-> objs[o].locks, resolver |-> r.resolver]
        /\ UNCHANGED <<clsattr, decor, views>>

Unlock(o, key, callers) ==
    \E r \in {LockableWrapper_unlock(o, key, callers, objs, cache)} :
        /\ objs' = [objs EXCEPT ![o].locks = r.locks]
        /\ cache' = r.cache
        /\ last' = [op |-> "unlock", obj |-> o, key |-> key, callers |-> callers,
                    exc |-> r.exc, before |-> objs[o].locks, resolver |-> r.resolver]
        /\ UNCHANGED <<clsattr, decor, views>>

Locked(o, key) ==
    \E r \in {LockableWrapper_locked(o, key, objs)} :
        /\ last' = [op |-> "locked", obj |-> o, key |-> key, exc |-> r.exc,
                    value |-> r.value, before |-> objs[o].locks]
        /\ UNCHANGED <<objs, clsattr, decor, cache, views>>

NextLock ==
    \/ \E o \in Lockables, key \in Keys \cup {UndeclaredKey}, callers \in CallerStacks :
           Lock(o, key, callers)
    \/ \E o \in Lockables, key \in Keys \cup {UndeclaredKey}, callers \in CallerStacks :
           Unlock(o, key, callers)
    \/ \E o \in Lockables, key \in Keys \cup {UndeclaredKey} : Locked(o, key)

SpecLock == InitLock /\ [][NextLock]_vars

(***************************************************************************)
(* SpecGuard: lock, unlock, freeze and the method setv, guarded with       *)
(* lockable.method(keys={"admin", "open"}), on an instance of Account, of  *)
(* Memo (the lockable guard outside the freezable one) or of Doc (the      *)
(* freezable guard outside the lockable one).                              *)
(***************************************************************************)
InitGuard ==
    /\ \E W \in {LAccount, LFMemo, FLDoc} :
         objs = [i \in ObjIds |->
                    IF i # 1 THEN NoObj
                    ELSE IF W = LAccount THEN LockObj(W)
                    ELSE [LockObj(W) EXCEPT !.has = {"__locks__", "__frozen__"}]]
    /\ clsattr = <<>>
    /\ decor = NoDecoration
    /\ cache = InitCache
    /\ views = <<>>
    /\ last = [op |-> "init"]

GuardCallers == { <<MethodFrame("Admin", "act", "Admin"), ModuleFrame>>,
                  <<MethodFrame("Guest", "act", "Guest"), ModuleFrame>> }

NextGuard ==
    \/ \E o \in Lockables, key \in Keys, callers \in GuardCallers : Lock(o, key, callers)
    \/ \E o \in Lockables, key \in Keys, callers \in GuardCallers : Unlock(o, key, callers)
    \/ \E o \in Freezables : Freeze(o, FALSE)
    \/ \E o \in Lockables, v \in Values : Setv(o, v)

SpecGuard == InitGuard /\ [][NextGuard]_vars

(***************************************************************************)
(* SpecLife: a lockable instance is constructed with a locks argument and  *)
(* then lock, unlock and locked are called on it, with declared and        *)
(* undeclared keys.                                                        *)
(***************************************************************************)
\* the locks argument of the constructor
LocksArgs == { <<>>, <<"open">>, <<"admin">>, <<"open", "admin">>,
               <<UndeclaredKey>>, <<"open", UndeclaredKey>> }

LifeKwargs ==
    { [n \in {"locks"} |-> l] : l \in LocksArgs }
    \cup { [n \in {"x", "locks"} |-> IF n = "x" THEN 1 ELSE l] : l \in LocksArgs }

NextLife ==
    \/ \E W \in {LAccount, LOther, LFMemo}, kwargs \in LifeKwargs, callers \in GuardCallers :
           Construct(W, <<>>, kwargs, callers)
    \/ \E o \in Lockables, key \in Keys \cup {UndeclaredKey}, callers \in GuardCallers :
           Lock(o, key, callers)
    \/ \E o \in Lockables, key \in Keys \cup {UndeclaredKey}, callers \in GuardCallers :
           Unlock(o, key, callers)
    \/ \E o \in Lockables, key \in Keys \cup {UndeclaredKey} : Locked(o, key)

SpecLife == InitCtor /\ [][NextLife]_vars

(***************************************************************************)
(* Properties of lock and unlock and of the capability resolver.           *)
(***************************************************************************)
\* the class of the method that made the call: the class of `self` in the
\* frame right above the call, None for a function outside any class
DirectCallerClass(callers) == FirstArgClass(Head(callers))

LastIsGuard == last.op \in {"lock", "unlock"}

\* the position, in the stack of a guard call, of the nearest frame above the
\* resolver's and the guard's whose classification gives a class (0: none)
NearestClassified(stack, hints) ==
    LET hit == {i \in 3..Len(stack) : _get_code_info(stack[i], hints).loc # None}
    IN  IF hit = {} THEN 0 ELSE Min(hit)

\* C3: key "admin" is authorized only for Admin: lock("admin") called from a
\* method of Admin or of a subclass of Admin returns normally and the key is
\* then held, whatever calls were made before.
C3_AdminLockSucceeds ==
    (/\ last.op = "lock"
     /\ last.key = "admin"
     /\ DirectCallerClass(last.callers) \in {"Admin", "SubAdmin"})
    => (last.exc = "ok" /\ "admin" \in objs[last.obj].locks)

\* C4: lock("admin") called from a method of the unrelated class Guest raises
\* LockError (unlock: UnlockError) and leaves the lock set unchanged.
C4_GuestLockRejected ==
    (/\ LastIsGuard
     /\ last.key = "admin"
     /\ DirectCallerClass(last.callers) = "Guest")
    => (/\ last.exc = (IF last.op = "lock" THEN "LockError" ELSE "UnlockError")
        /\ objs[last.obj].locks = last.before)

\* C5: for a call that a method of class C makes, is_calling_class_valid(S)
\* returns (True, C) exactly when a member of S is C or an ancestor of C; it
\* returns (False, _) otherwise, also for a caller outside any class.
C5_ResolverDecidesOnCaller ==
    (LastIsGuard /\ last.resolver.called) =>
        LET C == DirectCallerClass(last.callers)
            authorized == C # None /\ \E a \in last.resolver.allowed : IsSubclass(C, a)
        IN  /\ last.resolver.found <=> authorized
            /\ last.resolver.found => last.resolver.calling_class = C

\* C6: the resolver skips its own frame and the guard's frame and decides on
\* the nearest frame above them that classifies to a class; the guard's own
\* frame is never the frame that is tested.
C6_ResolverSkipsGuardFrame ==
    (LastIsGuard /\ last.resolver.called) =>
        LET stack == GuardStack(last.op, objs[last.obj].cls, last.callers)
        IN  /\ last.resolver.tested > 2
            /\ last.resolver.tested = NearestClassified(stack, last.resolver.allowed)

(***************************************************************************)
(* Construction (SpecCtor).                                                *)
(***************************************************************************)
LastIsConstruct == last.op = "construct"

AspectKeywords == {"frozen", "locks"}

\* the keyword arguments of the call that are not aspect keywords
UserKwargs(kwargs) == Restrict(kwargs, DOMAIN kwargs \ AspectKeywords)

\* the call's own arguments are valid for the user's constructor
ValidForUser(cls, args, kwargs) ==
    Bind(IntendedSpec(DecoratedCls(cls)), args, UserKwargs(kwargs)) = "ok"

\* the locks asked for are declared keys of the class that the caller may lock
LocksAllowed(cls, kwargs, callers) ==
    "locks" \in DOMAIN kwargs =>
        /\ GetWrapperClass("Lockable", cls) # None
        /\ LET data == LockDecoratorData(GetWrapperClass("Lockable", cls))
           IN  \A i \in DOMAIN kwargs["locks"] :
                 LET k == kwargs["locks"][i]
                 IN  /\ k \in data.locks
                     /\ k \in DOMAIN data.lock_permissions =>
                            \E a \in data.lock_permissions[k] :
                                IsSubclass(DirectCallerClass(callers), a)

\* the aspect keywords are keywords of the aspects of the class
AspectsKnown(cls, kwargs) ==
    /\ "frozen" \in DOMAIN kwargs => IsSubclass(cls, "Freezable")
    /\ "locks" \in DOMAIN kwargs => IsSubclass(cls, "Lockable")

InitEvents(trace) == SelectSeq(trace, LAMBDA e : e.ev = "init")

\* the aspects of a wrapper class, from the outermost wrapper to the innermost
RECURSIVE AspectChain(_)
AspectChain(cls) ==
    IF IsWrapper(cls) THEN <<Bases(cls)[2]>> \o AspectChain(Bases(cls)[1]) ELSE <<>>

\* C1: a construction with arguments valid for the user's constructor plus
\* aspect keywords calls the user's __init__ exactly once, with exactly the
\* positional arguments given and only the keywords it declares, each argument
\* once; aspect keywords reach it only if it declares **kwargs.
C1_UserCtorGetsItsArguments ==
    (/\ LastIsConstruct
     /\ ValidForUser(last.cls, last.args, last.kwargs)
     /\ AspectsKnown(last.cls, last.kwargs)
     /\ LocksAllowed(last.cls, last.kwargs, last.callers))
    => LET inits == InitEvents(last.trace)
           spec == IntendedSpec(DecoratedCls(last.cls))
       IN  /\ Len(inits) = 1
           /\ inits[1].exc = "ok"
           /\ inits[1].args = last.args
           /\ Restrict(inits[1].kwargs, DOMAIN UserKwargs(last.kwargs))
                  = UserKwargs(last.kwargs)
           /\ DOMAIN inits[1].kwargs \subseteq DOMAIN last.kwargs
           /\ ~spec.varkw => DOMAIN inits[1].kwargs \cap AspectKeywords = {}

\* C2: in the construction of an instance of a class with N stacked aspects
\* the load steps run from the outermost wrapper to the innermost, the user's
\* constructor is the last call made, and it finds the state of every aspect
\* (frozen flag, lock set) initialised.
C2_LoadsOuterToInnerThenUserCtor ==
    LastIsConstruct =>
        LET chain == AspectChain(last.cls)
            n == Len(last.trace)
            loads == SelectSeq(last.trace, LAMBDA e : e.ev = "load")
        IN  /\ Len(loads) <= Len(chain)
            /\ \A i \in 1..Len(loads) : loads[i].aspect = chain[i]
            /\ \A i \in 1..n : last.trace[i].ev = "init" =>
                   /\ i = n
                   /\ Len(loads) = Len(chain)
                   /\ ("Freezable" \in Range(chain)) =>
                          "__frozen__" \in last.trace[i].seen.has
                   /\ ("Lockable" \in Range(chain)) =>
                          "__locks__" \in last.trace[i].seen.has

\* C2 witness: a class with two stacked aspects was constructed with frozen
\* and locks, both load steps ran and the user's constructor returned.
C2_Witness ==
    /\ LastIsConstruct
    /\ Len(AspectChain(last.cls)) = 2
    /\ {"frozen", "locks"} \subseteq DOMAIN last.kwargs
    /\ last.exc = "ok"
    /\ Len(last.trace) = 3
    /\ last.trace[3].seen.frozen
    /\ last.trace[3].seen.locks # {}

OuterGuardError(cls) ==
    IF SetvOf(cls).code = "freezable_wrapper" THEN "FrozenError" ELSE "LockedError"

\* C9: with the freeze and lock aspects stacked in either order, a
\* construction with frozen=True and locks=[k], k a declared key, completes
\* and gives a frozen instance that holds k; the method guarded by both
\* aspects then fails with the error of the same guard on every call.
C9_StackedConstructFrozenLocked ==
    /\ (/\ LastIsConstruct
        /\ Len(AspectChain(last.cls)) = 2
        /\ {"frozen", "locks"} \subseteq DOMAIN last.kwargs
        /\ ValidForUser(last.cls, last.args, last.kwargs)
        /\ LocksAllowed(last.cls, last.kwargs, last.callers))
       => /\ last.exc = "ok"
          /\ objs[TheInstance].frozen
          /\ last.kwargs["locks"][1] \in objs[TheInstance].locks
    /\ (/\ last.op = "setv"
        /\ Len(AspectChain(last.before.cls)) = 2
        /\ last.before.frozen
        /\ last.before.locks \cap SetvKeys # {})
       => last.exc = OuterGuardError(last.before.cls)

(***************************************************************************)
(* Frozen instances (SpecFreeze) and copies (SpecCopy).                     *)
(***************************************************************************)
\* C7: a call of a method guarded by the freezable method decorator on an
\* instance whose frozen flag is True raises FrozenError and does not run the
\* body, the instance is as before; when the flag is False the body runs and
\* its result is returned.
C7_FrozenGuardRaises ==
    (last.op = "setv" /\ SetvOf(last.before.cls).code = "freezable_wrapper") =>
        IF last.before.frozen
        THEN /\ last.exc = "FrozenError"
             /\ last.returned = <<>>
             /\ objs[last.obj] = last.before
        ELSE /\ last.exc = "ok"
             /\ last.returned = <<last.v>>
             /\ objs[last.obj].a = last.v

\* C7 witness: setv was called on an instance that was frozen after its
\* construction (it was constructed unfrozen, its attribute has been set) and
\* raised FrozenError.
C7_Witness ==
    /\ last.op = "setv"
    /\ last.before.frozen
    /\ last.before.a # 0
    /\ last.v # last.before.a
    /\ last.exc = "FrozenError"

\* C8: for a frozen obj, obj.copy(frozen=False), deep or shallow, returns a
\* distinct instance that is not frozen and on which the guarded mutator
\* succeeds, and leaves the frozen flags of obj and of its descendants as
\* they were; with frozen=None the copy has obj's frozen flag.
C8_CopyLeavesOriginalFrozen ==
    (last.op = "copy" /\ last.before[last.obj].frozen) =>
        /\ last.new # last.obj
        /\ last.frozen = "False" =>
              /\ ~objs[last.new].frozen
              /\ CallMethod(SetvOf(objs[last.new].cls), Receiver(last.new, objs)) = "ok"
              /\ \A d \in get_descendents({last.obj}, last.before, clsattr) :
                     objs[d].frozen = last.before[d].frozen
        /\ last.frozen = None => objs[last.new].frozen

(***************************************************************************)
(* Operations through a view (SpecView).                                   *)
(***************************************************************************)
BlockedOps == {"freeze", "melt", "lock", "unlock"}

ThroughView == last.op \in BlockedOps \cup {"setv", "setattr", "delattr"}

Underlying == objs[views[last.view].obj]

\* C10 as stated: whatever is done through a view, the frozen flag, the lock
\* set and the attributes of the underlying instance stay as they were:
\* freeze, melt, lock and unlock raise PermissionError, and every other
\* operation that would change the instance raises.
C10_ViewNeverChangesInstance ==
    ThroughView =>
        /\ Underlying = last.before
        /\ last.op \in BlockedOps => last.exc = "PermissionError"

\* C10 amended: freeze, melt, lock and unlock through a view raise
\* PermissionError and leave the instance and the view as they were; an
\* assignment to, or a deletion of, an attribute that the view does not hold
\* itself is done on the underlying instance; a guarded method that a guard
\* refuses leaves the instance as it was, else its body runs on the instance.
C10_ViewBlocksAspectCallsAndForwards ==
    ThroughView =>
        /\ last.op \in BlockedOps =>
              /\ last.exc = "PermissionError"
              /\ Underlying = last.before
              /\ views[last.view] = last.vbefore
        /\ (last.op = "setattr" /\ ~FoundOnView(last.vbefore, last.key)) =>
              /\ last.exc = "ok"
              /\ Underlying = SetAttr(views[last.view].obj, last.key, last.value,
                                      [i \in ObjIds |-> last.before])[views[last.view].obj]
        /\ (last.op = "setattr" /\ FoundOnView(last.vbefore, last.key)) =>
              Underlying = last.before
        /\ (last.op = "delattr" /\ last.key \notin last.vbefore.has
                                /\ last.key \in last.before.has) =>
              /\ last.exc = "ok"
              /\ last.key \notin Underlying.has
        /\ last.op = "setv" =>
              IF last.exc = "ok" THEN Underlying.a = last.v
              ELSE Underlying = last.before

\* C10 witness: unlock of a key that the instance holds was called through a
\* view and raised PermissionError.
C10_Witness ==
    /\ last.op = "unlock"
    /\ last.key \in last.before.locks
    /\ last.exc = "PermissionError"
    /\ last.key \in Underlying.locks

(***************************************************************************)
(* Views of views (SpecNested).                                            *)
(***************************************************************************)
\* the view that x.view() gives in the present state, for the instance that
\* view i leads to
FreshView(i) == ClassWrapperBase_view(views[i].obj, objs).views

\* C11: a view made by view() on a view wraps the instance itself, never a
\* view; it has the proxy type of x.view(); an attribute read through it gives
\* what the same read through x.view() gives, and a method called through it
\* ends as the same call through x.view() ends (the calls compared are those
\* that raise, which leave the instance as it was).
C11_ViewOfViewIsViewOfInstance ==
    /\ \A i \in ViewIds :
          /\ views[i].over = 0
          /\ "__locks__" \in objs[views[i].obj].has =>
                views[i].mixins = FreshView(i)[1].mixins
    /\ (/\ last.op \in {"read", "call"}
        /\ views[last.view].over # 0
        /\ "__locks__" \in objs[views[last.view].obj].has) =>
          IF last.op = "read"
          THEN [exc |-> last.exc, value |-> last.value]
                   = View_getattribute(1, last.item, FreshView(last.view), objs)
          ELSE last.exc = View_method(1, last.name, last.key, last.v,
                                      FreshView(last.view), objs).exc

(***************************************************************************)
(* Decoration (SpecDecorate).                                              *)
(***************************************************************************)
\* the classes that a table authorizes for a key or group
Authorized(table, k) == IF k \in DOMAIN table THEN table[k] ELSE {}

\* the table `got` of the subclass is the union of the declared table and the
\* table of the wrapper it derives from, for the keys that have a class set
\* in one of the two (the decorated classes themselves, which the decorator
\* adds to the sets, are left out of the comparison)
IsUnionOf(got, declared, wrapper) ==
    \A k \in DOMAIN declared \cup DOMAIN wrapper :
        /\ k \in DOMAIN got
        /\ got[k] \ DecoratedClasses
              = (Authorized(declared, k) \cup Authorized(wrapper, k)) \ DecoratedClasses

\* C12: decorating a subclass of a lockable (alienatable) wrapper with lockable
\* (alienatable) again, with a table that the decorator accepts, succeeds, and
\* the permission table of the subclass gives, for every key or friend group,
\* the classes of both declarations.
C12_RedecorationUnitesTables ==
    /\ (last.op = "lockable" /\ HasWrapper(last.cls, last.before.lock)
                             /\ last.exc # "ValueError") =>
          /\ last.exc = "ok"
          /\ IsUnionOf(last.data.lock_permissions, last.declared.lock_permissions,
                       last.before.lock["Base"].lock_permissions)
          /\ IsUnionOf(last.data.unlock_permissions, last.declared.unlock_permissions,
                       last.before.lock["Base"].unlock_permissions)
    /\ (last.op = "alienatable" /\ HasWrapper(last.cls, last.before.alien)
                                /\ last.exc # "ValueError") =>
          /\ last.exc = "ok"
          /\ IsUnionOf(last.data, last.declared, last.before.alien["Base"])

(***************************************************************************)
(* Claims about the classifier (SpecClassify).                             *)
(***************************************************************************)
\* C13: a classification that finds a live cache entry for the code returns
\* the pair of that entry and leaves the entry alone; one that finds no entry,
\* or an entry whose method or class was destroyed, returns the pair that
\* _get_code_info computes, which names no destroyed class, and stores it
C13_CacheReturnsLivePairOrRecomputes ==
    (last.op = "classify" /\ last.exc = "ok") =>
        /\ last.before.state = "cached" =>
              /\ last.mtd = last.before.mtd /\ last.loc = last.before.loc
              /\ cache[last.frame.code] = last.before
        /\ last.before.state # "cached" =>
              /\ last.mtd = _get_code_info(last.frame, last.hint).mtd
              /\ last.loc = _get_code_info(last.frame, last.hint).loc
              /\ last.loc \notin decor.gone
              /\ cache[last.frame.code] = Cached(last.mtd, last.loc)

\* C13 witness: a classification found an entry whose class was destroyed and
\* replaced it by the pair of a live class
C13_Witness ==
    /\ last.op = "classify" /\ last.exc = "ok"
    /\ last.before.state = "dead"
    /\ last.loc # None /\ last.loc # last.before.loc
    /\ cache[last.frame.code] = Cached(last.mtd, last.loc)

\* C14: no classification raises
C14_ClassifierNeverRaises == last.op = "classify" => last.exc = "ok"

(***************************************************************************)
(* Claims about the decorators (SpecDecorate).                             *)
(***************************************************************************)
\* the MethodSpecs that wait in current_decorator_specs for a class decorator
PendingSpecs(d) == UNION {d.specs[t] : t \in DOMAIN d.specs}

\* C15: decorating a method of a class while MethodSpecs of another class wait
\* for their class decorator raises DecorationUsageError; decorating a method
\* after the class decorators have emptied the registry succeeds
C15_UnfinalizedClassRejected ==
    (last.op = "method" /\ last.exc # "ValueError") =>
        /\ (\E spec \in PendingSpecs(last.before) : spec.cls # last.cls)
              => last.exc = "DecorationUsageError"
        /\ (DOMAIN last.before.specs = {}) => last.exc = "ok"

\* C16: a lockable decorator whose lock_permissions is missing or empty, an
\* alienatable decorator whose friends is missing or empty, and a
\* lockable.method decorator without keys each raise ValueError
C16_MisconfigurationRaisesValueError ==
    /\ (last.op = "lockable" /\ (~last.lock_permissions.given \/ last.lock_permissions.keys = {}))
          => last.exc = "ValueError"
    /\ (last.op = "alienatable" /\ (\/ last.friends.kind = "None"
                                    \/ last.friends.kind = "dict" /\ DOMAIN last.friends.groups = {}
                                    \/ last.friends.kind = "set" /\ last.friends.classes = {}))
          => last.exc = "ValueError"
    /\ (last.op = "method" /\ last.aspect = "Lockable" /\ ~last.keys.given)
          => last.exc = "ValueError"

(***************************************************************************)
(* Claims about undeclared keys (SpecLock).                                *)
(***************************************************************************)
\* the keys that the lockable wrapper of the class of object o declares
DeclaredKeys(o) == LockDecoratorData(GetWrapperClass("Lockable", objs[o].cls)).locks

\* C17: lock, unlock and locked called with a key that the class does not
\* declare raise KeyError, whoever calls, and leave the lock set as it was
C17_UndeclaredKeyRaisesKeyError ==
    (last.op \in {"lock", "unlock", "locked"} /\ last.key \notin DeclaredKeys(last.obj)) =>
        /\ last.exc = "KeyError"
        /\ objs[last.obj].locks = last.before

\* C17 witness: an authorized caller called unlock with an undeclared key on
\* an object that holds a lock
C17_Witness ==
    /\ last.op = "unlock" /\ last.key \notin DeclaredKeys(last.obj)
    /\ last.callers = AdminCaller
    /\ last.before # {}
    /\ last.exc = "KeyError" /\ objs[last.obj].locks = last.before

(***************************************************************************)
(* Claims about alien methods (SpecAlien).                                 *)
(***************************************************************************)
\* the caller of the alien method is a friend: its class is in, or derives
\* from a class in, the friend sets that the method accepts
CallerIsFriend ==
    LET caller == DirectCallerClass(last.callers)
    IN  /\ caller # None
        /\ \E a \in get_valid_classes(FriendList(last.method), objs[last.obj].cls) :
               IsSubclass(caller, a)

\* C18: an alien method called on an alienatable instance runs its body when
\* the caller is a friend; for any other caller it raises AlienError and the
\* body does not run
C18_AlienMethodAdmitsFriendsOnly ==
    (last.op = "alien" /\ IsSubclass(objs[last.obj].cls, "Alienatable")) =>
        IF CallerIsFriend
        THEN last.exc = "ok" /\ objs[last.obj].a = last.value
        ELSE last.exc = "AlienError" /\ objs[last.obj].a = last.before

(***************************************************************************)
(* Claims about freeze and melt (SpecDeep).                                *)
(***************************************************************************)
\* the let_freeze and let_melt arguments of the decorator of the class of o
LetOf(o) == FreezableWrapper_decorator(GetWrapperClass("Freezable", objs[o].cls))

\* C19: freeze() sets the flag of the instance where the class lets freeze and
\* raises PermissionError, the flag as it was, where it does not; melt()
\* clears the flag where the class lets melt and raises PermissionError, the
\* flag as it was, where it does not
C19_FreezeMeltFollowLetFlags ==
    /\ last.op = "freeze" =>
          IF LetOf(last.obj).let_freeze
          THEN last.exc = "ok" /\ objs[last.obj].frozen
          ELSE last.exc = "PermissionError"
                 /\ (objs[last.obj].frozen <=> last.obj \in last.before)
    /\ last.op = "melt" =>
          IF LetOf(last.obj).let_melt
          THEN last.exc = "ok" /\ ~objs[last.obj].frozen
          ELSE last.exc = "PermissionError"
                 /\ (objs[last.obj].frozen <=> last.obj \in last.before)

\* C19 witness: freeze() was refused on an instance of Stone, which was and
\* is not frozen
C19_Witness ==
    /\ last.op = "freeze" /\ objs[last.obj].cls = FStone
    /\ last.exc = "PermissionError"
    /\ last.obj \notin last.before /\ ~objs[last.obj].frozen

\* the objects reachable from D through attributes, whatever their classes
RECURSIVE AttrReachable(_)
AttrReachable(D) ==
    LET next == D \cup UNION {get_members(x, objs, clsattr) : x \in D}
    IN  IF next = D THEN D ELSE AttrReachable(next)

\* C20: after freeze(deep=True) every Freezable object reachable from the
\* instance through attributes is frozen; after freeze(deep=False) the
\* instance is frozen and the flag of every other object is as it was; melt
\* likewise with the flag cleared
C20_DeepReachesEveryFreezable ==
    (last.op \in {"freeze", "melt"} /\ last.exc = "ok") =>
        LET flag == last.op = "freeze"
        IN  /\ objs[last.obj].frozen = flag
            /\ last.deep =>
                  \A x \in AttrReachable({last.obj}) :
                      IsFreezable(x, objs) => objs[x].frozen = flag
            /\ ~last.deep =>
                  \A x \in ObjIds \ {last.obj} : objs[x].frozen <=> x \in last.before

(***************************************************************************)
(* Claims about the guard of lockable.method (SpecGuard).                  *)
(***************************************************************************)
\* the guard of freezable.method refuses the call on the instance `before`
RefusedAsFrozen(before) == IsSubclass(before.cls, "Freezable") /\ before.frozen

\* C21: a call of setv, guarded with the keys SetvKeys, on a lockable instance
\* that no freezable guard refuses raises LockedError exactly when the instance
\* holds a key of SetvKeys, and otherwise runs the body and returns its
\* result; whatever the other guards, the body does not run while a key of
\* SetvKeys is held, and LockedError is raised only then
C21_LockedMethodBlockedIffKeyHeld ==
    (last.op = "setv" /\ IsSubclass(last.before.cls, "Lockable")) =>
        LET held == SetvKeys \cap last.before.locks
            ran == last.exc = "ok" /\ objs[last.obj].a = last.v /\ last.returned = <<last.v>>
        IN  /\ ~RefusedAsFrozen(last.before) =>
                  IF held # {} THEN last.exc = "LockedError" ELSE ran
            /\ held # {} => (last.exc # "ok" /\ objs[last.obj] = last.before)
            /\ last.exc = "LockedError" => (held # {} /\ objs[last.obj] = last.before)

\* C21 witness: setv was refused with LockedError on an instance that holds
\* a key of SetvKeys after a lock call
C21_Witness ==
    /\ last.op = "setv" /\ last.exc = "LockedError"
    /\ SetvKeys \cap last.before.locks # {}
    /\ objs[last.obj] = last.before

(***************************************************************************)
(* Claims about the lock set (SpecLife).                                   *)
(***************************************************************************)
\* C22: the lock set of every lockable instance holds only keys that the
\* class of the instance declares
C22_LocksAreDeclaredKeys ==
    \A o \in ObjIds :
        (objs[o].cls # None /\ IsSubclass(objs[o].cls, "Lockable"))
            => objs[o].locks \subseteq DeclaredKeys(o)

\* C22 witness: a construction with a locks argument gave an instance that
\* holds the keys of the argument, and a lock call with an undeclared key on
\* it was refused
C22_Witness ==
    /\ last.op = "lock" /\ last.key \notin DeclaredKeys(last.obj)
    /\ last.exc = "KeyError"
    /\ objs[last.obj].locks # {}
    /\ objs[last.obj].locks \subseteq DeclaredKeys(last.obj)

(***************************************************************************)
(* Claims about repeated lock and unlock calls (SpecLock).                 *)
(***************************************************************************)
\* the caller may lock and unlock the key: "open" has no permission set,
\* "admin" is for Admin and its subclasses
PermittedCaller(key, callers) ==
    key = "open" \/ DirectCallerClass(callers) \in {"Admin", "SubAdmin"}

\* C23: unlock of a declared key that the instance does not hold, and lock of
\* a key that it holds, called by a permitted caller, return normally and
\* leave the lock set as it was
C23_RepeatedLockUnlockIsNoOp ==
    (/\ LastIsGuard
     /\ last.key \in DeclaredKeys(last.obj)
     /\ PermittedCaller(last.key, last.callers)
     /\ IF last.op = "unlock" THEN last.key \notin last.before ELSE last.key \in last.before)
    => (last.exc = "ok" /\ objs[last.obj].locks = last.before)

\* C24: no freeze or melt call, on whatever object, clears the flag of a
\* frozen instance whose class does not let melt, or sets the flag of an
\* unfrozen instance whose class does not let freeze
C24_LetFlagsHoldAgainstDeepCalls ==
    (last.op \in {"freeze", "melt"}) =>
        \A x \in ObjIds :
            (objs[x].cls # None /\ IsFreezable(x, objs)) =>
                /\ (~LetOf(x).let_melt /\ x \in last.before) => objs[x].frozen
                /\ (~LetOf(x).let_freeze /\ x \notin last.before) => ~objs[x].frozen

(***************************************************************************)
(* Claims about the classification cache (SpecLock).                       *)
(***************************************************************************)
\* the call that `last` records, made again in the same state of the
\* instances with a cache that holds nothing
WithFreshCache ==
    LET os == [objs EXCEPT ![last.obj].locks = last.before]
    IN  IF last.op = "lock"
        THEN LockableWrapper_lock(last.obj, last.key, last.callers, os, InitCache)
        ELSE LockableWrapper_unlock(last.obj, last.key, last.callers, os, InitCache)

\* C25: a lock or unlock call ends as the same call made with an empty cache
\* ends: the same exception, the same decision and the same class reported,
\* whatever guarded calls were made before
C25_CacheNeverChangesDecision ==
    LastIsGuard =>
        /\ last.exc = WithFreshCache.exc
        /\ last.resolver.found = WithFreshCache.resolver.found
        /\ last.resolver.calling_class = WithFreshCache.resolver.calling_class

\* C26: a method decoration that is rejected leaves the waiting MethodSpecs of
\* every aspect and the remembered last MethodSpec as they were, and the
\* rejection for a class that is not finalized is DecorationUsageError, also
\* when the waiting MethodSpecs belong to another aspect
C26_RejectedDecorationChangesNothing ==
    /\ (last.op \in {"method", "method_value"} /\ last.exc \notin {"ok", "ValueError"}) =>
          /\ \A aspect \in AspectClasses : SpecsOf(decor, aspect) = SpecsOf(last.before, aspect)
          /\ decor.last_spec = last.before.last_spec
    /\ (/\ last.op = "method" /\ last.exc # "ValueError"
        /\ \E spec \in PendingSpecs(last.before) :
               spec.cls # last.cls /\ spec.aspect # last.aspect)
          => last.exc = "DecorationUsageError"

====
